---- MODULE Spec2Model ----
(***************************************************************************)
(* Astrodon: the markdown rendering / interpolation pipeline of build.ts   *)
(* (src/unnamed/part_005) as state machines, one specification per         *)
(* pipeline component.                                                     *)
(***************************************************************************)
EXTENDS Integers, Sequences, FiniteSets, TLC

\* ---------------------------------------------------------------- bounds
\* number of input lines fed to the list parser
MaxLines == 3
\* length, in characters of the vault alphabet, of the text given to the vault
MaxText == 6
\* number of lines of a document body given to the table parser
MaxDocLines == 4
\* length, in items, of a document given to processLuaInterpolations
MaxContent == 3
\* length, in items, of a document given to the footnote pass
MaxFootItems == 4
\* length, in items, of a title, a content or a navigation
MaxPageText == 2
\* number of markdown files a build may find
NumFiles == 2
\* number of distinct dates of the posts
MaxDate == 3
\* number of entries of a directory listing
MaxEntries == 4
\* number of spans of a line given to the inline passes
MaxSpans == 3
\* number of items of a frontmatter array
MaxItems == 4
\* number of tokens inside a fenced block or a script element
MaxBody == 2
\* number of lines given to the definition-list pass
MaxDefLines == 4
\* number of characters of a table row
MaxRowLen == 5
\* number of words and definition lines given to the abbreviation pass
MaxAbbrItems == 3
\* items of a text given to a token vault, and the largest index written in it
MaxTokText == 3
MaxTokenIndex == 2
\* number of lines of a frontmatter block
MaxMetaLines == 2
\* minutes the file cache is followed for
MaxClock == 6
\* documents in flight together, and the milliseconds they are followed for
InFlightDocs == 2
MaxNow == 2
\* pieces of a line with links and images
MaxLinkPieces == 2
\* minutes the development server is followed for
MaxSrvNow == 6
\* minutes between two looks at the server's clock
SrvStep == 3

\* ------------------------------------------------------ program constants
\* listItemRegex /^([ ]{0,6}).../ accepts at most 6 leading spaces
MaxSpaces == 6
\* 2 spaces per nesting level: Math.floor(match[1].length / 2)
IndentUnit == 2
\* the open loop runs while j < 3
MaxDepth == 3

VARIABLES
    \* nested list parser (parseMarkdown, part_005:91-138)
    listStack,   \* stack of {type, indent} frames, top is the last element
    htmlLines,   \* emitted lines, each [html, src]
    listPc,      \* "idle" | "scan" | "done"
    nLines       \* number of input lines consumed so far

VARIABLES
    \* placeholder vault for fenced code (parseMarkdown, part_005:140-151, 379-402)
    markdown,       \* the text being rewritten, a sequence of characters
    rawCodeBlocks,  \* captured {lang, code} in capture order
    vaultPc,        \* "idle" | "start" | "protected" | "restored"
    tokenPos,       \* history: where protection put its tokens in markdown
    restoredHtml    \* the text after restoration, each [kind, c, lang, code]

VARIABLES
    \* tables (processMarkdownFile, part_005:1047-1065; parseMarkdown, 222-245)
    hasFrontmatter, \* the file starts with a terminated frontmatter block
    bodyLines,      \* the lines of the body, frontmatter excluded
    eofNewline,     \* the last line of the body is terminated by \n
    tableSrc,       \* history: bodyLines as read from the file
    tableHtml,      \* the text after the table pass, each [kind, line, th, tr]
    tablePc         \* "idle" | "read" | "body" | "done"

VARIABLES
    \* Lua interpolation (part_005:795-876, 1058-1065)
    content,        \* the document text, a sequence of items [t, v, name, args]
    interpolations, \* parseLuaInterpolations(content): [script, params, fullMatch]
    interpIdx,      \* position of the for loop over interpolations
    scriptFiles,    \* the names n for which ./lua-scripts/n.lua exists
    results,        \* history: what executeLuaScript returned, call by call
    interpSrc,      \* history: content as handed to processLuaInterpolations
    interpPc        \* "idle" | "parse" | "loop" | "markdown" | "written"

VARIABLES
    \* footnotes (parseMarkdown, part_005:270-297)
    footText,        \* the text, a sequence of items [k, name, num]
    footnoteDefs,    \* the names with a collected definition
    footnoteRefs,    \* name -> number, 0 while the name has none
    footnoteCounter, \* the next number to hand out
    footSrc,         \* history: the text before the pass
    footPc           \* "idle" | "defs" | "refs" | "done"

VARIABLES
    \* page assembly (generateHTML, part_005:1124-1165)
    html,            \* the page being assembled, a sequence of items
    metaTitle,       \* meta.title
    pageContent,     \* content
    navigation,      \* navigation
    webpLogoExists,  \* checkWebPLogoExists()
    pagePc           \* "idle" | "call" | "done"

VARIABLES
    \* the batch of build() (part_005:1480-1611)
    buildPc,         \* "idle" | "start" | "batch" | "done"
    markdownFiles,   \* the documents found, a sequence of kinds
    maxConcurrency,  \* build.parallel.maxConcurrency of optimization.config.json
    filePc,          \* per file: "new", the stage awaited, "ok" or "failed"
    stagesDone,      \* history: per file, the stages that completed
    thrown,          \* history: per file, the stage that threw, or ""
    softErrors,      \* history: per file, the soft errors it hit
    dist,            \* the files whose HTML was written in this build
    processedFiles,  \* buildMetrics.processedFiles
    successful,      \* results.filter(r => r.success).length
    failed           \* results.filter(r => !r.success).length

VARIABLES
    \* the table of contents (processTOCMarker, part_005:879-966)
    tocPath,         \* filePath, a sequence of path segments
    tocContent,      \* content, a sequence of items [k, name, date]
    listing,         \* the entries of the directory of the index, as read
    blogPosts,       \* the posts collected, then sorted
    tocPc            \* "idle" | "call" | "done" | "error"

VARIABLES
    \* inline passes (parseMarkdown, part_005:319-327)
    emphSegs,        \* history: the spans the line was written from
    emphLine,        \* the line, a sequence of characters and tags
    emphPc           \* "idle" | "call" | "done"

VARIABLES
    \* frontmatter values (extractMetadata, part_005:1081-1110)
    fmItems,         \* history: the items the value was written from
    fmLine,          \* the frontmatter line, a sequence of characters
    fmMeta,          \* meta: key -> parsed value, as a set of pairs
    fmPc             \* "idle" | "call" | "done"

VARIABLES
    \* the order of the passes of parseMarkdown (part_005:35-405)
    pipeDoc,         \* markdown, a sequence of tokens [syn, html]
    scriptBlocks,    \* the <script> elements taken out of the text
    pipeCodeBlocks,  \* rawCodeBlocks: the fenced blocks taken out of the text
    pipeSrc,         \* history: the text given to parseMarkdown
    pipePc           \* the number of the next pass, 0 when idle

VARIABLES
    \* definition lists (parseMarkdown, part_005:153-220)
    defLines,          \* the lines of the text, by kind
    defIndex,          \* i of the loop, from 1
    inDefinitionList,  \* inDefinitionList
    defHtmlLines,      \* defHtmlLines
    defPc              \* "idle" | "loop" | "done"

VARIABLES
    \* one body row of a table (parseMarkdown, part_005:232-241)
    rowLine,           \* the line of the block, a sequence of characters
    rowCells,          \* row: the cells after split, slice and trim
    rowEmitted,        \* TRUE when a <tr> was appended for the row
    rowPc              \* "idle" | "line" | "done"

VARIABLES
    \* abbreviations (parseMarkdown, part_005:256-268)
    abbrSrc,           \* the text given to the pass: definition lines and words
    abbrMarkdown,      \* markdown, a sequence of word tokens
    abbrevKeys,        \* Object.keys(abbrevDefs), in insertion order
    abbrevDefs,        \* abbrevDefs: term -> definition, <<>> when not defined
    abbrPc             \* "idle" | "collect" | "replace" | "done"

VARIABLES
    \* the three token vaults of the render path and their restore steps
    tokVault,          \* "codeblock" | "script" | "template"
    tokText,           \* the text, a sequence of items [t, n]
    tokBlocks,         \* the captured spans, by index from 0; "" marks a hole
    tokProtected,      \* the text as protection left it
    tokPc              \* "idle" | "start" | "protected" | "restored"

VARIABLES
    \* a document with or without metadata, from file to page title
    docStarts,         \* content.startsWith('---')
    docTerminated,     \* a second '---' stands behind the first
    docLines,          \* the lines behind the first '---'
    docMeta,           \* meta of extractMetadata: key -> value
    docTitle,          \* what replaces {{title}} in the written page
    docPc              \* "idle" | "read" | "rendered" | "written"

VARIABLES
    \* the file cache of build.ts (part_005:7-32, 1028-1078)
    fileCache,         \* fileCache: path -> [hash, content], NoEntry when absent
    fileContents,      \* what Deno.readTextFile gives for each path now
    cacheClock,        \* minutes since the process started
    storedAt,          \* history: the minute at which each entry was stored
    lastCall,          \* history: what the last processMarkdownFile call did
    cachePc            \* "idle" | "run"

VARIABLES
    \* temporary Lua files of the documents in flight (part_005:813-865,
    \* 969-1025)
    tempPaths,         \* the source path of each document in flight
    tempPc,            \* where each document stands
    tempName,          \* the temporary file name each document is using now
    tempFs,            \* the temporary files on disk: [name, owner, step]
    dateNow,           \* Date.now()
    randomDraws,       \* number of Math.random() calls so far
    executed,          \* history: whose script each document's lua runs read
    tempRunPc          \* "idle" | "run"

VARIABLES
    \* links and images of a line and the passes behind them (part_005:47-89,
    \* 319-327)
    linkSrc,           \* the line as written: text, links and images
    linkPieces,        \* the line while the image and link passes rewrite it
    linkLine,          \* the line as one string, once the inline passes have run
    webpExists,        \* Deno.statSync finds the .webp twin of an image
    linkPc             \* "idle" | "images" | "links" | "inline" | "done"

VARIABLES
    \* the development server and its response cache (part_010:12-64, 122-368)
    responseCache,     \* responseCache: path -> [producer, method, timestamp]
    distFiles,         \* the files under ./dist
    srvNow,            \* Date.now(), in minutes
    lastResponse,      \* history: the request answered last and its answer
    srvPc              \* "idle" | "serving"

listVars == <<listStack, htmlLines, listPc, nLines>>
vaultVars == <<markdown, rawCodeBlocks, vaultPc, tokenPos, restoredHtml>>
tableVars == <<hasFrontmatter, bodyLines, eofNewline, tableSrc, tableHtml, tablePc>>
interpVars == <<content, interpolations, interpIdx, scriptFiles, results, interpSrc, interpPc>>
footVars == <<footText, footnoteDefs, footnoteRefs, footnoteCounter, footSrc, footPc>>
pageVars == <<html, metaTitle, pageContent, navigation, webpLogoExists, pagePc>>
buildVars == <<buildPc, markdownFiles, maxConcurrency, filePc, stagesDone, thrown, softErrors, dist, processedFiles, successful, failed>>
tocVars == <<tocPath, tocContent, listing, blogPosts, tocPc>>
emphVars == <<emphSegs, emphLine, emphPc>>
fmVars == <<fmItems, fmLine, fmMeta, fmPc>>
pipeVars == <<pipeDoc, scriptBlocks, pipeCodeBlocks, pipeSrc, pipePc>>
defVars == <<defLines, defIndex, inDefinitionList, defHtmlLines, defPc>>
rowVars == <<rowLine, rowCells, rowEmitted, rowPc>>
abbrVars == <<abbrSrc, abbrMarkdown, abbrevKeys, abbrevDefs, abbrPc>>
tokVars == <<tokVault, tokText, tokBlocks, tokProtected, tokPc>>
docVars == <<docStarts, docTerminated, docLines, docMeta, docTitle, docPc>>
cacheVars == <<fileCache, fileContents, cacheClock, storedAt, lastCall, cachePc>>
tempVars == <<tempPaths, tempPc, tempName, tempFs, dateNow, randomDraws, executed, tempRunPc>>
linkVars == <<linkSrc, linkPieces, linkLine, webpExists, linkPc>>
srvVars == <<responseCache, distFiles, srvNow, lastResponse, srvPc>>
vars == <<listVars, vaultVars, tableVars, interpVars, footVars, pageVars, buildVars, tocVars, emphVars, fmVars, pipeVars, defVars, rowVars, abbrVars, tokVars, docVars, cacheVars, tempVars, linkVars, srvVars>>

\* what the actions of one component leave alone
notList == <<vaultVars, tableVars, interpVars, footVars, pageVars, buildVars, tocVars, emphVars, fmVars, pipeVars, defVars, rowVars, abbrVars, tokVars, docVars, cacheVars, tempVars, linkVars, srvVars>>
notVault == <<listVars, tableVars, interpVars, footVars, pageVars, buildVars, tocVars, emphVars, fmVars, pipeVars, defVars, rowVars, abbrVars, tokVars, docVars, cacheVars, tempVars, linkVars, srvVars>>
notTable == <<listVars, vaultVars, interpVars, footVars, pageVars, buildVars, tocVars, emphVars, fmVars, pipeVars, defVars, rowVars, abbrVars, tokVars, docVars, cacheVars, tempVars, linkVars, srvVars>>
notInterp == <<listVars, vaultVars, tableVars, footVars, pageVars, buildVars, tocVars, emphVars, fmVars, pipeVars, defVars, rowVars, abbrVars, tokVars, docVars, cacheVars, tempVars, linkVars, srvVars>>
notFoot == <<listVars, vaultVars, tableVars, interpVars, pageVars, buildVars, tocVars, emphVars, fmVars, pipeVars, defVars, rowVars, abbrVars, tokVars, docVars, cacheVars, tempVars, linkVars, srvVars>>
notPage == <<listVars, vaultVars, tableVars, interpVars, footVars, buildVars, tocVars, emphVars, fmVars, pipeVars, defVars, rowVars, abbrVars, tokVars, docVars, cacheVars, tempVars, linkVars, srvVars>>
notBuild == <<listVars, vaultVars, tableVars, interpVars, footVars, pageVars, tocVars, emphVars, fmVars, pipeVars, defVars, rowVars, abbrVars, tokVars, docVars, cacheVars, tempVars, linkVars, srvVars>>
notToc == <<listVars, vaultVars, tableVars, interpVars, footVars, pageVars, buildVars, emphVars, fmVars, pipeVars, defVars, rowVars, abbrVars, tokVars, docVars, cacheVars, tempVars, linkVars, srvVars>>
notEmph == <<listVars, vaultVars, tableVars, interpVars, footVars, pageVars, buildVars, tocVars, fmVars, pipeVars, defVars, rowVars, abbrVars, tokVars, docVars, cacheVars, tempVars, linkVars, srvVars>>
notFm == <<listVars, vaultVars, tableVars, interpVars, footVars, pageVars, buildVars, tocVars, emphVars, pipeVars, defVars, rowVars, abbrVars, tokVars, docVars, cacheVars, tempVars, linkVars, srvVars>>
notPipe == <<listVars, vaultVars, tableVars, interpVars, footVars, pageVars, buildVars, tocVars, emphVars, fmVars, defVars, rowVars, abbrVars, tokVars, docVars, cacheVars, tempVars, linkVars, srvVars>>
notDef == <<listVars, vaultVars, tableVars, interpVars, footVars, pageVars, buildVars, tocVars, emphVars, fmVars, pipeVars, rowVars, abbrVars, tokVars, docVars, cacheVars, tempVars, linkVars, srvVars>>
notRow == <<listVars, vaultVars, tableVars, interpVars, footVars, pageVars, buildVars, tocVars, emphVars, fmVars, pipeVars, defVars, abbrVars, tokVars, docVars, cacheVars, tempVars, linkVars, srvVars>>
notAbbr == <<listVars, vaultVars, tableVars, interpVars, footVars, pageVars, buildVars, tocVars, emphVars, fmVars, pipeVars, defVars, rowVars, tokVars, docVars, cacheVars, tempVars, linkVars, srvVars>>
notTok == <<listVars, vaultVars, tableVars, interpVars, footVars, pageVars, buildVars, tocVars, emphVars, fmVars, pipeVars, defVars, rowVars, abbrVars, docVars, cacheVars, tempVars, linkVars, srvVars>>
notDoc == <<listVars, vaultVars, tableVars, interpVars, footVars, pageVars, buildVars, tocVars, emphVars, fmVars, pipeVars, defVars, rowVars, abbrVars, tokVars, cacheVars, tempVars, linkVars, srvVars>>
notCache == <<listVars, vaultVars, tableVars, interpVars, footVars, pageVars, buildVars, tocVars, emphVars, fmVars, pipeVars, defVars, rowVars, abbrVars, tokVars, docVars, tempVars, linkVars, srvVars>>
notTemp == <<listVars, vaultVars, tableVars, interpVars, footVars, pageVars, buildVars, tocVars, emphVars, fmVars, pipeVars, defVars, rowVars, abbrVars, tokVars, docVars, cacheVars, linkVars, srvVars>>
notLink == <<listVars, vaultVars, tableVars, interpVars, footVars, pageVars, buildVars, tocVars, emphVars, fmVars, pipeVars, defVars, rowVars, abbrVars, tokVars, docVars, cacheVars, tempVars, srvVars>>
notSrv == <<listVars, vaultVars, tableVars, interpVars, footVars, pageVars, buildVars, tocVars, emphVars, fmVars, pipeVars, defVars, rowVars, abbrVars, tokVars, docVars, cacheVars, tempVars, linkVars>>

\* ---- a component that is not running
ListIdle ==
    /\ listStack = <<>>
    /\ htmlLines = <<>>
    /\ listPc = "idle"
    /\ nLines = 0

VaultIdle ==
    /\ markdown = <<>>
    /\ rawCodeBlocks = <<>>
    /\ vaultPc = "idle"
    /\ tokenPos = <<>>
    /\ restoredHtml = <<>>

TableIdle ==
    /\ hasFrontmatter = FALSE
    /\ bodyLines = <<>>
    /\ eofNewline = FALSE
    /\ tableSrc = <<>>
    /\ tableHtml = <<>>
    /\ tablePc = "idle"

InterpIdle ==
    /\ content = <<>>
    /\ interpolations = <<>>
    /\ interpIdx = 0
    /\ scriptFiles = {}
    /\ results = <<>>
    /\ interpSrc = <<>>
    /\ interpPc = "idle"

FootNames == {"a", "b", "c"}

FootIdle ==
    /\ footText = <<>>
    /\ footnoteDefs = {}
    /\ footnoteRefs = [n \in FootNames |-> 0]
    /\ footnoteCounter = 0
    /\ footSrc = <<>>
    /\ footPc = "idle"

PageIdle ==
    /\ html = <<>>
    /\ metaTitle = <<>>
    /\ pageContent = <<>>
    /\ navigation = <<>>
    /\ webpLogoExists = FALSE
    /\ pagePc = "idle"

BuildIdle ==
    /\ buildPc = "idle"
    /\ markdownFiles = <<>>
    /\ maxConcurrency = 0
    /\ filePc = <<>>
    /\ stagesDone = <<>>
    /\ thrown = <<>>
    /\ softErrors = <<>>
    /\ dist = {}
    /\ processedFiles = 0
    /\ successful = 0
    /\ failed = 0

TocIdle ==
    /\ tocPath = <<>>
    /\ tocContent = <<>>
    /\ listing = <<>>
    /\ blogPosts = <<>>
    /\ tocPc = "idle"

EmphIdle ==
    /\ emphSegs = <<>>
    /\ emphLine = <<>>
    /\ emphPc = "idle"

FmIdle ==
    /\ fmItems = <<>>
    /\ fmLine = <<>>
    /\ fmMeta = {}
    /\ fmPc = "idle"

PipeIdle ==
    /\ pipeDoc = <<>>
    /\ scriptBlocks = <<>>
    /\ pipeCodeBlocks = <<>>
    /\ pipeSrc = <<>>
    /\ pipePc = 0

DefIdle ==
    /\ defLines = <<>>
    /\ defIndex = 0
    /\ inDefinitionList = FALSE
    /\ defHtmlLines = <<>>
    /\ defPc = "idle"

RowIdle ==
    /\ rowLine = <<>>
    /\ rowCells = <<>>
    /\ rowEmitted = FALSE
    /\ rowPc = "idle"

AbbrIdle ==
    /\ abbrSrc = <<>>
    /\ abbrMarkdown = <<>>
    /\ abbrevKeys = <<>>
    /\ abbrevDefs = <<>>
    /\ abbrPc = "idle"

TokIdle ==
    /\ tokVault = "idle"
    /\ tokText = <<>>
    /\ tokBlocks = <<>>
    /\ tokProtected = <<>>
    /\ tokPc = "idle"

DocIdle ==
    /\ docStarts = FALSE
    /\ docTerminated = FALSE
    /\ docLines = <<>>
    /\ docMeta = <<>>
    /\ docTitle = <<>>
    /\ docPc = "idle"

CacheIdle ==
    /\ fileCache = <<>>
    /\ fileContents = <<>>
    /\ cacheClock = 0
    /\ storedAt = <<>>
    /\ lastCall = <<>>
    /\ cachePc = "idle"

TempIdle ==
    /\ tempPaths = <<>>
    /\ tempPc = <<>>
    /\ tempName = <<>>
    /\ tempFs = {}
    /\ dateNow = 0
    /\ randomDraws = 0
    /\ executed = <<>>
    /\ tempRunPc = "idle"

LinkIdle ==
    /\ linkSrc = <<>>
    /\ linkPieces = <<>>
    /\ linkLine = <<>>
    /\ webpExists = FALSE
    /\ linkPc = "idle"

SrvIdle ==
    /\ responseCache = <<>>
    /\ distFiles = {}
    /\ srvNow = 0
    /\ lastResponse = <<>>
    /\ srvPc = "idle"

Min(a, b) == IF a < b THEN a ELSE b

\* =====================================================================
\* Nested list parser
\* =====================================================================
Markers == {"-", "1."}

\* const isOrdered = /\d+\./.test(marker); const type = isOrdered ? 'ol' : 'ul'
ListType(marker) == IF marker = "1." THEN "ol" ELSE "ul"

\* const indent = Math.floor(match[1].length / 2)
Indent(spaces) == spaces \div IndentUnit

OpenTag(type) == [html |-> IF type = "ol" THEN "<ol>" ELSE "<ul>", src |-> ""]
CloseTag(type) == [html |-> IF type = "ol" THEN "</ol>" ELSE "</ul>", src |-> ""]
\* `<li>${content}</li>`; src remembers the marker of the source line
ListItemLine(marker) == [html |-> "<li>", src |-> marker]
\* a non-list line passed through unchanged
PlainLine == [html |-> "text", src |-> ""]

Top(st) == st[Len(st)]
Pop(st) == SubSeq(st, 1, Len(st) - 1)

\* while (listStack.length > 0 && indent < top.indent) push(`</${pop().type}>`)
RECURSIVE DedentClose(_, _)
DedentClose(st, indent) ==
    IF Len(st) > 0 /\ indent < Top(st).indent
    THEN LET r == DedentClose(Pop(st), indent)
         IN  [stack |-> r.stack, out |-> <<CloseTag(Top(st).type)>> \o r.out]
    ELSE [stack |-> st, out |-> <<>>]

\* an opening loop without the limit on the depth
IndentOpenNoClamp(st, indent, type) ==
    IF Len(st) = 0 \/ indent > Top(st).indent
    THEN LET from == IF Len(st) > 0 THEN Top(st).indent + 1 ELSE 0
             n    == IF indent >= from THEN indent - from + 1 ELSE 0
         IN  [stack |-> st \o [k \in 1..n |-> [type |-> type, indent |-> from + k - 1]],
              out   |-> [k \in 1..n |-> OpenTag(type)]]
    ELSE [stack |-> st, out |-> <<>>]

\* if (length === 0 || indent > top.indent)
\*   for (j = (length > 0 ? top.indent + 1 : 0); j <= indent && j < 3; j++) open
IndentOpen(st, indent, type) ==
    IF Len(st) = 0 \/ indent > Top(st).indent
    THEN LET from == IF Len(st) > 0 THEN Top(st).indent + 1 ELSE 0
             to   == Min(indent, MaxDepth - 1)
             n    == IF to >= from THEN to - from + 1 ELSE 0
         IN  [stack |-> st \o [k \in 1..n |-> [type |-> type, indent |-> from + k - 1]],
              out   |-> [k \in 1..n |-> OpenTag(type)]]
    ELSE [stack |-> st, out |-> <<>>]

\* a type switch that forgets to close the list it replaces
TypeSwitchNoClose(st, indent, type) ==
    IF Len(st) > 0 /\ Top(st).type # type /\ indent = Top(st).indent
    THEN [stack |-> Append(Pop(st), [type |-> type, indent |-> indent]),
          out   |-> <<OpenTag(type)>>]
    ELSE [stack |-> st, out |-> <<>>]

\* if (length > 0 && top.type !== type && indent === top.indent) close and open
TypeSwitch(st, indent, type) ==
    IF Len(st) > 0 /\ Top(st).type # type /\ indent = Top(st).indent
    THEN [stack |-> Append(Pop(st), [type |-> type, indent |-> indent]),
          out   |-> <<CloseTag(Top(st).type), OpenTag(type)>>]
    ELSE [stack |-> st, out |-> <<>>]

\* while (listStack.length > 0) push(`</${pop().type}>`)
RECURSIVE Unwind(_)
Unwind(st) ==
    IF Len(st) > 0 THEN <<CloseTag(Top(st).type)>> \o Unwind(Pop(st)) ELSE <<>>

\* the body of the loop for a line that matches listItemRegex
ListItem(spaces, marker) ==
    /\ listPc = "scan"
    /\ nLines < MaxLines
    /\ LET indent == Indent(spaces)
           type   == ListType(marker)
           a == DedentClose(listStack, indent)
           b == IndentOpen(a.stack, indent, type)
           c == TypeSwitch(b.stack, indent, type)
       IN  /\ listStack' = c.stack
           /\ htmlLines' = htmlLines \o a.out \o b.out \o c.out
                             \o <<ListItemLine(marker)>>
    /\ nLines' = nLines + 1
    /\ UNCHANGED <<listPc, notList>>

\* the else branch: a line that is no list item
NonListLine ==
    /\ listPc = "scan"
    /\ nLines < MaxLines
    /\ htmlLines' = htmlLines \o Unwind(listStack) \o <<PlainLine>>
    /\ listStack' = <<>>
    /\ nLines' = nLines + 1
    /\ UNCHANGED <<listPc, notList>>

\* after the loop: close any remaining open lists
ListsEnd ==
    /\ listPc = "scan"
    /\ htmlLines' = htmlLines \o Unwind(listStack)
    /\ listStack' = <<>>
    /\ listPc' = "done"
    /\ UNCHANGED <<nLines, notList>>

ListInit ==
    /\ listStack = <<>>
    /\ htmlLines = <<>>
    /\ listPc = "scan"
    /\ nLines = 0


\* =====================================================================
\* Placeholder vault for fenced code blocks
\* =====================================================================
\* The characters the vault is exercised with: the fence (three backquotes,
\* one character here), a newline, a
\* word character, a character that restoration escapes, and ordinary text
\* that happens to read "@@CODEBLOCK0@@".
Fence == "fence"
NL == "\n"
VaultChars == {Fence, NL, "a", "<", "@@CODEBLOCK0@@"}

\* `@@CODEBLOCK${rawCodeBlockIndex++}@@`
Tokens == <<"@@CODEBLOCK0@@", "@@CODEBLOCK1@@", "@@CODEBLOCK2@@", "@@CODEBLOCK3@@">>
TokenOf(n) == Tokens[n + 1]
\* /@@CODEBLOCK(\d+)@@/
IsToken(c) == \E i \in 1..Len(Tokens) : Tokens[i] = c
\* parseInt(index)
TokenIndex(c) == CHOOSE i \in 0..(Len(Tokens) - 1) : Tokens[i + 1] = c

\* (\w+)? : the length of the run of word characters that starts at p
RECURSIVE WordRun(_, _)
WordRun(s, p) == IF p <= Len(s) /\ s[p] = "a" THEN 1 + WordRun(s, p + 1) ELSE 0

\* /FENCE(\w+)?\n([\s\S]*?)FENCE/ tried at position p: the fence, an optional
\* language word, a newline, then lazily everything up to the next fence
FenceAt(s, p) ==
    LET k      == WordRun(s, p + 1)
        nl     == p + 1 + k
        closes == {f \in (nl + 1)..Len(s) : s[f] = Fence}
    IN  IF s[p] = Fence /\ nl <= Len(s) /\ s[nl] = NL /\ closes # {}
        THEN LET f == CHOOSE x \in closes : \A y \in closes : x <= y
             IN  [ok   |-> TRUE,
                  \* lang: language || 'plaintext'
                  lang |-> IF k > 0 THEN SubSeq(s, p + 1, p + k) ELSE <<"plaintext">>,
                  code |-> SubSeq(s, nl + 1, f - 1),
                  end  |-> f]
        ELSE [ok |-> FALSE, lang |-> <<>>, code |-> <<>>, end |-> p]

\* markdown.replace(/FENCE(\w+)?\n([\s\S]*?)FENCE/g, ...): scan from p, acc is
\* what has been produced so far
RECURSIVE ProtectFrom(_, _, _)
ProtectFrom(s, p, acc) ==
    IF p > Len(s) THEN acc
    ELSE LET m == FenceAt(s, p) IN
         IF m.ok
         THEN ProtectFrom(s, m.end + 1,
                  [text   |-> Append(acc.text, TokenOf(Len(acc.blocks))),
                   blocks |-> Append(acc.blocks, [lang |-> m.lang, code |-> m.code]),
                   pos    |-> Append(acc.pos, Len(acc.text) + 1)])
         ELSE ProtectFrom(s, p + 1, [acc EXCEPT !.text = Append(@, s[p])])

Protect(s) == ProtectFrom(s, 1, [text |-> <<>>, blocks |-> <<>>, pos |-> <<>>])

\* .replace(/&/g,'&amp;').replace(/</g,'&lt;')... on the vault's characters
SanitizeChar(c) == IF c = "<" THEN "&lt;" ELSE c
Sanitize(code) == [k \in 1..Len(code) |-> SanitizeChar(code[k])]

TextItem(c) == [kind |-> "text", c |-> c, lang |-> <<>>, code |-> <<>>]
\* the code-block-container div holding the language label and the sanitized code
BlockItem(block) ==
    [kind |-> "block", c |-> "", lang |-> block.lang, code |-> Sanitize(block.code)]

\* a restoration that reads the captured list one entry too far
RestoreTokenOffByOne(c, blocks) ==
    IF IsToken(c) /\ TokenIndex(c) + 2 <= Len(blocks)
    THEN BlockItem(blocks[TokenIndex(c) + 2])
    ELSE TextItem(c)

\* (match, index) => { const block = rawCodeBlocks[parseInt(index)];
\*                     if (!block) return match; ... }
RestoreToken(c, blocks) ==
    IF IsToken(c) /\ TokenIndex(c) + 1 <= Len(blocks)
    THEN BlockItem(blocks[TokenIndex(c) + 1])
    ELSE TextItem(c)

\* markdown.replace(/@@CODEBLOCK(\d+)@@/g, ...)
Restore(text, blocks) == [k \in 1..Len(text) |-> RestoreToken(text[k], blocks)]

\* lines 140-151: store raw code blocks and insert placeholders
ProtectCodeBlocks ==
    /\ vaultPc = "start"
    /\ LET r == Protect(markdown)
       IN  /\ markdown' = r.text
           /\ rawCodeBlocks' = r.blocks
           /\ tokenPos' = r.pos
    /\ vaultPc' = "protected"
    /\ UNCHANGED <<restoredHtml, notVault>>

\* lines 379-402: replace the placeholders after all other processing.  The
\* passes in between (lines 153-377) rewrite the text around the tokens; over
\* VaultChars none of their patterns matches inside "@@CODEBLOCK<n>@@".
RestoreCodeBlocks ==
    /\ vaultPc = "protected"
    /\ restoredHtml' = Restore(markdown, rawCodeBlocks)
    /\ vaultPc' = "restored"
    /\ UNCHANGED <<markdown, rawCodeBlocks, tokenPos, notVault>>

VaultTexts == UNION {[1..n -> VaultChars] : n \in 0..MaxText}

VaultInit ==
    /\ markdown \in VaultTexts
    /\ rawCodeBlocks = <<>>
    /\ vaultPc = "start"
    /\ tokenPos = <<>>
    /\ restoredHtml = <<>>


\* C1: after restoration the n-th captured code text stands, sanitized, at
\* the position of the n-th token that protection inserted, the captured
\* blocks appear nowhere else (each exactly once), and every other character
\* of the text is unchanged; a text without tokens is returned as it is.
C1_VaultRoundTrip ==
    vaultPc = "restored" =>
        /\ Len(restoredHtml) = Len(markdown)
        /\ \A n \in 1..Len(tokenPos) :
              restoredHtml[tokenPos[n]] = BlockItem(rawCodeBlocks[n])
        /\ \A k \in 1..Len(restoredHtml) :
              (\A n \in 1..Len(tokenPos) : tokenPos[n] # k)
                  => restoredHtml[k] = TextItem(markdown[k])


\* =====================================================================
\* Tables
\* =====================================================================
\* A line of the body is blank, ordinary text, or a pipe line "| c1 | c2 |"
\* with a pipe at both edges; cells holds its trimmed cells: "" empty,
\* "x" content, "-" dashes.
BlankLine == [kind |-> "blank", cells |-> <<>>]
TextLine == [kind |-> "text", cells |-> <<>>]
PipeLine(cells) == [kind |-> "pipe", cells |-> cells]
BodyLineKinds ==
    {BlankLine, TextLine} \cup
    {PipeLine(c) : c \in {<<"x">>, <<"x", "x">>, <<"-">>, <<"-", "-">>,
                          <<"">>, <<"", "">>, <<"x", "">>}}

\* /^\|.*\|.*\n/ : a line that starts with a pipe, holds a second one and is
\* terminated by a newline
IsPipe(l) == l.kind = "pipe"
Terminated(ls, k) == k < Len(ls) \/ eofNewline

\* lines[1].replace(/\s/g, '').match(/^\|?[-:|]+\|?$/)
IsSeparator(l) == IsPipe(l) /\ \A k \in 1..Len(l.cells) : l.cells[k] \in {"", "-"}

\* String.prototype.trim on the body: leading and trailing blank lines go,
\* and so does the newline that ends the last line
RECURSIVE TrimLeft(_)
TrimLeft(ls) == IF ls # <<>> /\ Head(ls).kind = "blank" THEN TrimLeft(Tail(ls)) ELSE ls
RECURSIVE TrimRight(_)
TrimRight(ls) ==
    IF ls # <<>> /\ ls[Len(ls)].kind = "blank"
    THEN TrimRight(SubSeq(ls, 1, Len(ls) - 1)) ELSE ls
TrimLines(ls) == TrimRight(TrimLeft(ls))

LineItem(l) == [kind |-> "line", line |-> l, th |-> <<>>, tr |-> <<>>]
TableItem(th, tr) == [kind |-> "table", line |-> BlankLine, th |-> th, tr |-> tr]

\* if (row.length === 0 || (row.length === 1 && row[0] === '')) continue
SkippedRow(row) == Len(row) = 0 \/ (Len(row) = 1 /\ row[1] = "")

\* the replace callback on one matched block of lines
RenderBlock(block) ==
    IF Len(block) < 2 \/ ~IsSeparator(block[2])
    THEN [k \in 1..Len(block) |-> LineItem(block[k])]
    ELSE LET rows == [k \in 1..(Len(block) - 2) |-> block[k + 2].cells]
         IN  <<TableItem(block[1].cells,
                         SelectSeq(rows, LAMBDA row : ~SkippedRow(row)))>>

\* ((?:^\|.*\|.*\n)+) : the length of the run of matching lines from k on
RECURSIVE BlockLen(_, _)
BlockLen(ls, k) ==
    IF k <= Len(ls) /\ IsPipe(ls[k]) /\ Terminated(ls, k)
    THEN 1 + BlockLen(ls, k + 1) ELSE 0

\* markdown.replace(/((?:^\|.*\|.*\n)+)/gm, ...) from line k on
RECURSIVE TablesFrom(_, _)
TablesFrom(ls, k) ==
    IF k > Len(ls) THEN <<>>
    ELSE LET n == BlockLen(ls, k) IN
         IF n > 0
         THEN RenderBlock(SubSeq(ls, k, k + n - 1)) \o TablesFrom(ls, k + n)
         ELSE <<LineItem(ls[k])>> \o TablesFrom(ls, k + 1)

\* processMarkdownFile: markdownContent = content, or, behind frontmatter,
\* content.substring(endIndex + 3).trim()
ExtractBody ==
    /\ tablePc = "read"
    /\ IF hasFrontmatter
       THEN /\ bodyLines' = TrimLines(bodyLines)
            /\ eofNewline' = FALSE
       ELSE UNCHANGED <<bodyLines, eofNewline>>
    /\ tablePc' = "body"
    /\ UNCHANGED <<hasFrontmatter, tableSrc, tableHtml, notTable>>

\* parseMarkdown, tables pass.  The list and definition-list passes before it
\* split and join the text on \n and leave blank, text and pipe lines as they
\* are.
ParseTables ==
    /\ tablePc = "body"
    /\ tableHtml' = TablesFrom(bodyLines, 1)
    /\ tablePc' = "done"
    /\ UNCHANGED <<hasFrontmatter, bodyLines, eofNewline, tableSrc, notTable>>

TableInit ==
    /\ hasFrontmatter \in BOOLEAN
    /\ bodyLines \in UNION {[1..n -> BodyLineKinds] : n \in 0..MaxDocLines}
    /\ eofNewline \in BOOLEAN
    /\ tableSrc = bodyLines
    /\ tableHtml = <<>>
    /\ tablePc = "read"


\* ---- properties of the table pass
\* the maximal runs of pipe lines of the source, in order
RECURSIVE PipeRunLen(_, _)
PipeRunLen(ls, k) == IF k <= Len(ls) /\ IsPipe(ls[k]) THEN 1 + PipeRunLen(ls, k + 1) ELSE 0
RECURSIVE PipeRuns(_, _)
PipeRuns(ls, k) ==
    IF k > Len(ls) THEN <<>>
    ELSE LET n == PipeRunLen(ls, k) IN
         IF n > 0 THEN <<SubSeq(ls, k, k + n - 1)>> \o PipeRuns(ls, k + n)
         ELSE PipeRuns(ls, k + 1)

HasContent(l) == \E k \in 1..Len(l.cells) : l.cells[k] # ""

\* a header line, a separator line and N body rows with a non-empty cell each
ValidTableBlock(run) ==
    /\ Len(run) >= 2
    /\ HasContent(run[1])
    /\ IsSeparator(run[2])
    /\ \A k \in 3..Len(run) : HasContent(run[k])

TableShape(th, tr) == [th |-> th, tr |-> tr]
RenderedShapes ==
    LET tables == SelectSeq(tableHtml, LAMBDA it : it.kind = "table")
    IN  [k \in 1..Len(tables) |-> TableShape(Len(tables[k].th), Len(tables[k].tr))]

\* C3: every block of the source made of a header line, a separator line and
\* N body rows (each with a non-empty cell) is rendered as one table with
\* exactly N <tr> in <tbody> and as many <th> as the header has cells,
\* wherever the block stands in the body, its very end included.
C3_TableWellFormed ==
    LET runs == PipeRuns(tableSrc, 1) IN
    (tablePc = "done" /\ \A k \in 1..Len(runs) : ValidTableBlock(runs[k])) =>
        RenderedShapes =
            [k \in 1..Len(runs) |-> TableShape(Len(runs[k][1].cells), Len(runs[k]) - 2)]


\* ---- properties of the list parser
IsOpen(l) == l.html \in {"<ul>", "<ol>"}
IsClose(l) == l.html \in {"</ul>", "</ol>"}
TagType(l) == IF l.html \in {"<ol>", "</ol>"} THEN "ol" ELSE "ul"

\* the types of the lists still open after reading the tags of out, read left
\* to right; <<"bad">> once a closing tag does not close the innermost open list
RECURSIVE OpenAfter(_, _)
OpenAfter(out, open) ==
    IF out = <<>> THEN open
    ELSE LET l == Head(out) IN
         IF IsOpen(l) THEN OpenAfter(Tail(out), Append(open, TagType(l)))
         ELSE IF IsClose(l)
              THEN IF Len(open) > 0 /\ open[Len(open)] = TagType(l)
                   THEN OpenAfter(Tail(out), SubSeq(open, 1, Len(open) - 1))
                   ELSE <<"bad">>
              ELSE OpenAfter(Tail(out), open)

CountLines(out, P(_)) == Cardinality({k \in 1..Len(out) : P(out[k])})

\* C2: the emitted <ul>/<ol> and </ul>/</ol> tags are properly nested, every
\* closing tag closes the most recent still-open list of its own type, the
\* open lists of the output are the frames of the stack, and after the last
\* line the stack is empty and opening and closing tags are equal in number.
C2_ListBalance ==
    listPc \in {"scan", "done"} =>
        /\ OpenAfter(htmlLines, <<>>) = [k \in 1..Len(listStack) |-> listStack[k].type]
        /\ listPc = "done" =>
              /\ listStack = <<>>
              /\ CountLines(htmlLines, IsOpen) = CountLines(htmlLines, IsClose)

\* a finished run with nested lists of both kinds and a non-list line
C2_Witness ==
    /\ listPc = "done"
    /\ \E k \in 1..Len(htmlLines) : htmlLines[k].html = "text"
    /\ \E k \in 1..(Len(htmlLines) - 1) :
          htmlLines[k].html = "<ul>" /\ htmlLines[k + 1].html = "<ul>"
    /\ \E k \in 1..Len(htmlLines) : htmlLines[k].html = "</ol>"

\* the type of the innermost list open where line k of the output stands,
\* "" when none is open there
EnclosingList(k) ==
    LET open == OpenAfter(SubSeq(htmlLines, 1, k - 1), <<>>)
    IN  IF open = <<>> THEN "" ELSE open[Len(open)]

\* C18: every item stands directly in a list of the kind of its own marker:
\* an item with an ordered marker in an <ol>, one with an unordered marker in
\* a <ul>, at every indentation from 0 to 6 spaces.
C18_ListTypeChange ==
    \A k \in DOMAIN htmlLines :
        htmlLines[k].html = "<li>" => EnclosingList(k) = ListType(htmlLines[k].src)

\* the stack as it may stand after a processed line
ListStackShape ==
    /\ \A k \in 1..(Len(listStack) - 1) : listStack[k].indent < listStack[k + 1].indent
    /\ Len(listStack) <= MaxDepth
    /\ (htmlLines # <<>> /\ htmlLines[Len(htmlLines)] = PlainLine) => listStack = <<>>
\* a list line is emitted as an item at its own level, or at the deepest
\* level when it is indented deeper
ItemPlaced ==
    \A spaces \in 0..MaxSpaces, marker \in Markers :
        ListItem(spaces, marker) =>
            /\ Top(listStack').indent = Min(Indent(spaces), MaxDepth - 1)
            /\ htmlLines'[Len(htmlLines')] = ListItemLine(marker)

\* C19: after every processed line the indents of the stack increase
\* strictly from bottom to top, the stack holds at most 3 frames, and it is
\* empty right after a non-list line; an item indented deeper than the last
\* level is emitted at the deepest level, not dropped.
C19_ListStackInvariant == [](ListStackShape) /\ [][ItemPlaced]_vars

\* the stack at its full depth after an item, two lines read
C19_Witness ==
    /\ listPc = "scan"
    /\ Len(listStack) = MaxDepth
    /\ nLines = 2
    /\ htmlLines[Len(htmlLines)].html = "<li>"
    /\ htmlLines[Len(htmlLines) - 1].html = "<li>"


\* =====================================================================
\* Lua interpolation
\* =====================================================================
\* An item of the text is one character, or one whole {{lua:name[:args]}}
\* marker.  "$$" and "$&" are the two-character sequences that
\* String.prototype.replace treats as patterns in a replacement string.
Ch(c) == [t |-> "c", v |-> c, name |-> <<>>, args |-> <<>>]
Lua(name, args) == [t |-> "lua", v |-> "", name |-> name, args |-> args]
IsLua(it) == it.t = "lua"
Chars(str) == [k \in 1..Len(str) |-> Ch(str[k])]

ScriptNames == {<<"a">>, <<"b", "_", "c">>}
DocItems ==
    {Ch("t"), Lua(<<"a">>, <<>>), Lua(<<"a">>, <<"x">>), Lua(<<"b", "_", "c">>, <<>>)}
\* what a script may print: plain text, text with "$" patterns, text with
\* underscores, text that reads like a marker; print ends it with a newline
ScriptStdouts ==
    {<<Ch("r"), Ch("\n")>>,
     <<Ch("$&"), Ch("\n")>>,
     <<Ch("$$"), Ch("\n")>>,
     <<Ch("_"), Ch("r"), Ch("_"), Ch("\n")>>,
     <<Lua(<<"b", "_", "c">>, <<>>), Ch("\n")>>}

\* parseLuaInterpolations: one entry per regex match, in text order
ParseLuaInterpolations(text) ==
    LET ms == SelectSeq(text, IsLua)
    IN  [k \in 1..Len(ms) |->
            [script |-> ms[k].name, params |-> ms[k].args, fullMatch |-> ms[k]]]

\* `[Lua Script Not Found: ${scriptName}]`
NotFoundText(name) == <<Ch("[Lua Script Not Found: ")>> \o Chars(name) \o <<Ch("]")>>
\* `[Lua Error: ${scriptName}]`
LuaErrorText(name) == <<Ch("[Lua Error: ")>> \o Chars(name) \o <<Ch("]")>>

\* output.trim()
IsSpace(it) == it.t = "c" /\ it.v \in {" ", "\n"}
RECURSIVE TrimEnd(_)
TrimEnd(str) ==
    IF str # <<>> /\ IsSpace(str[Len(str)]) THEN TrimEnd(SubSeq(str, 1, Len(str) - 1)) ELSE str
RECURSIVE TrimStart(_)
TrimStart(str) == IF str # <<>> /\ IsSpace(Head(str)) THEN TrimStart(Tail(str)) ELSE str
Trim(str) == TrimEnd(TrimStart(str))

\* GetSubstitution of String.prototype.replace(searchString, replaceString):
\* "$$" inserts "$", "$&" inserts the matched text
RECURSIVE Substitution(_, _)
Substitution(repl, matched) ==
    IF repl = <<>> THEN <<>>
    ELSE (IF Head(repl) = Ch("$$") THEN <<Ch("$")>>
          ELSE IF Head(repl) = Ch("$&") THEN <<matched>>
          ELSE <<Head(repl)>>) \o Substitution(Tail(repl), matched)

\* content.replace(interpolation.fullMatch, result): the first occurrence of
\* the search string, wherever it stands in the current text
StringReplace(text, search, repl) ==
    LET hits == {k \in 1..Len(text) : text[k] = search} IN
    IF hits = {} THEN text
    ELSE LET k == CHOOSE x \in hits : \A y \in hits : x <= y
         IN  SubSeq(text, 1, k - 1) \o Substitution(repl, search)
                 \o SubSeq(text, k + 1, Len(text))

\* const interpolations = parseLuaInterpolations(content)
ParseInterpolations ==
    /\ interpPc = "parse"
    /\ interpolations' = ParseLuaInterpolations(content)
    /\ interpIdx' = 1
    /\ interpPc' = "loop"
    /\ UNCHANGED <<content, scriptFiles, results, interpSrc, notInterp>>

\* one iteration of the for loop: result = await executeLuaScript(...);
\* content = content.replace(fullMatch, result)
Iteration(result) ==
    /\ interpPc = "loop"
    /\ interpIdx <= Len(interpolations)
    /\ content' = StringReplace(content, interpolations[interpIdx].fullMatch, result)
    /\ results' = Append(results, result)
    /\ interpIdx' = interpIdx + 1
    /\ UNCHANGED <<interpolations, scriptFiles, interpSrc, interpPc, notInterp>>

CurrentScript == interpolations[interpIdx].script

\* executeLuaScript: Deno.stat(luaPath) throws, the catch returns the placeholder
ScriptNotFound ==
    /\ interpPc = "loop" /\ interpIdx <= Len(interpolations)
    /\ CurrentScript \notin scriptFiles
    /\ Iteration(NotFoundText(CurrentScript))

\* executeLuaScript: the script runs with exit status 0: return output.trim()
ScriptRuns(stdout) ==
    /\ interpPc = "loop" /\ interpIdx <= Len(interpolations)
    /\ CurrentScript \in scriptFiles
    /\ Iteration(Trim(stdout))

\* executeLuaScript: if (code !== 0) return `[Lua Error: ...]`
ScriptExitsNonZero ==
    /\ interpPc = "loop" /\ interpIdx <= Len(interpolations)
    /\ CurrentScript \in scriptFiles
    /\ Iteration(LuaErrorText(CurrentScript))

\* executeLuaScript: writing the temp file or launching lua throws; the same
\* catch returns the not-found placeholder
ScriptLaunchFails ==
    /\ interpPc = "loop" /\ interpIdx <= Len(interpolations)
    /\ CurrentScript \in scriptFiles
    /\ Iteration(NotFoundText(CurrentScript))

\* .replace(/_(.*?)_/g, '<em>$1</em>') from position p on
RECURSIVE ItalicUnderscore(_, _)
ItalicUnderscore(text, p) ==
    IF p > Len(text) THEN <<>>
    ELSE LET closes == {q \in (p + 1)..Len(text) : text[q] = Ch("_")} IN
         IF text[p] = Ch("_") /\ closes # {}
         THEN LET q == CHOOSE x \in closes : \A y \in closes : x <= y
              IN  <<Ch("<em>")>> \o SubSeq(text, p + 1, q - 1) \o <<Ch("</em>")>>
                      \o ItalicUnderscore(text, q + 1)
         ELSE <<text[p]>> \o ItalicUnderscore(text, p + 1)

\* processMarkdownFile after the loop: processTOCMarker finds no marker, then
\* parseMarkdown(tocProcessedContent).  Of its passes the underscore italic
\* pass is the one that matches inside the items used here.
RenderMarkdown ==
    /\ interpPc = "loop"
    /\ interpIdx > Len(interpolations)
    /\ content' = ItalicUnderscore(content, 1)
    /\ interpPc' = "markdown"
    /\ UNCHANGED <<interpolations, interpIdx, scriptFiles, results, interpSrc, notInterp>>

\* build: generateHTML and Deno.writeTextFile(outputPath, html)
WritePage ==
    /\ interpPc = "markdown"
    /\ interpPc' = "written"
    /\ UNCHANGED <<content, interpolations, interpIdx, scriptFiles, results, interpSrc, notInterp>>

InterpInit ==
    /\ content \in UNION {[1..n -> DocItems] : n \in 0..MaxContent}
    /\ interpolations = <<>>
    /\ interpIdx = 0
    /\ scriptFiles \in SUBSET ScriptNames
    /\ results = <<>>
    /\ interpSrc = content
    /\ interpPc = "parse"

\* ---- properties of the interpolation step
\* the text with its k-th marker replaced by the k-th return value, verbatim
RECURSIVE Substituted(_, _)
Substituted(text, rs) ==
    IF text = <<>> THEN <<>>
    ELSE IF IsLua(Head(text)) /\ rs # <<>>
         THEN Head(rs) \o Substituted(Tail(text), Tail(rs))
         ELSE <<Head(text)>> \o Substituted(Tail(text), rs)

CountItems(text, P(_)) == Cardinality({k \in 1..Len(text) : P(text[k])})

\* C4: processLuaInterpolations calls the script once per marker occurrence
\* and the text it returns is the source with every occurrence replaced, at
\* its own position, by what the call returned, character for character, so
\* that no {{lua:...}} marker is left.
C4_InterpolationSubstitution ==
    (interpPc = "loop" /\ interpIdx > Len(interpolations)) =>
        /\ Len(results) = CountItems(interpSrc, IsLua)
        /\ content = Substituted(interpSrc, results)
        /\ CountItems(content, IsLua) = 0

\* the number of places where str stands in text
Occurrences(text, str) ==
    Cardinality({p \in 1..Len(text) :
        /\ p + Len(str) - 1 <= Len(text)
        /\ SubSeq(text, p, p + Len(str) - 1) = str})

MissingDirectives(name) ==
    CountItems(interpSrc, LAMBDA it : IsLua(it) /\ it.name = name)

\* C5: in the written page every directive whose script file does not exist
\* stands replaced by a placeholder that reads "Script Not Found: <name>",
\* and every directive of the document was resolved by a call.
C5_MissingScript ==
    interpPc = "written" =>
        /\ Len(results) = CountItems(interpSrc, IsLua)
        /\ \A name \in ScriptNames \ scriptFiles :
              Occurrences(content, NotFoundText(name)) >= MissingDirectives(name)

\* C17: no directive is resolved before the markdown of the document has
\* been rendered, and in the written page the text that each call returned
\* stands as it was returned.
C17_InterpolationAfterMarkdown ==
    /\ results # <<>> => interpPc \in {"markdown", "written"}
    /\ interpPc = "written" =>
          \A k \in DOMAIN results : Occurrences(content, results[k]) >= 1


\* C24: the not-found placeholder stands only for a directive whose script
\* file does not exist; a script that exists and fails, by its exit status
\* or because the interpreter cannot be run, gives the execution-error
\* placeholder.
C24_FailureKindPlaceholder ==
    \A k \in DOMAIN results :
        results[k] = NotFoundText(interpolations[k].script)
            => interpolations[k].script \notin scriptFiles

\* =====================================================================
\* Footnotes
\* =====================================================================
\* An item of the text is a reference [^name] in running text, a definition
\* line "[^name]: text" or other text; the pass turns references into
\* numbered <sup> links.
FootRef(name) == [k |-> "ref", name |-> name, num |-> 0]
FootDef(name) == [k |-> "def", name |-> name, num |-> 0]
FootTextItem == [k |-> "text", name |-> "", num |-> 0]
\* `<sup class="footnote-ref"><a href="#footnote-${num}" ...>[${num}]</a></sup>`
FootSup(name, num) == [k |-> "sup", name |-> name, num |-> num]
FootItems ==
    {FootRef(n) : n \in FootNames} \cup {FootDef(n) : n \in {"a", "b"}} \cup {FootTextItem}

\* /^\[\^([^\]]+)\]:\s*(.+)$/gm : definition lines
IsFootDef(it) == it.k = "def"
\* /\[\^([^\]]+)\](?!:)/g : references
IsFootRef(it) == it.k = "ref"

\* a numbering that hands out a fresh number at every reference
AssignFresh(refs, counter, name) ==
    [refs |-> [refs EXCEPT ![name] = counter], counter |-> counter + 1]

\* if (!footnoteRefs[name]) { footnoteRefs[name] = footnoteCounter++; }
AssignNumber(refs, counter, name) ==
    IF refs[name] = 0
    THEN [refs |-> [refs EXCEPT ![name] = counter], counter |-> counter + 1]
    ELSE [refs |-> refs, counter |-> counter]

\* markdown.replace(/\[\^([^\]]+)\](?!:)/g, ...) from position p on
RECURSIVE NumberFrom(_, _, _)
NumberFrom(text, p, acc) ==
    IF p > Len(text) THEN acc
    ELSE IF IsFootRef(text[p])
         THEN LET a == AssignNumber(acc.refs, acc.counter, text[p].name)
              IN  NumberFrom(text, p + 1,
                      [out     |-> Append(acc.out, FootSup(text[p].name, a.refs[text[p].name])),
                       refs    |-> a.refs,
                       counter |-> a.counter])
         ELSE NumberFrom(text, p + 1, [acc EXCEPT !.out = Append(@, text[p])])

\* lines 272-284: collect the definitions, removing their lines
CollectFootnoteDefs ==
    /\ footPc = "defs"
    /\ footnoteDefs' = {footText[k].name : k \in {j \in 1..Len(footText) : IsFootDef(footText[j])}}
    /\ footText' = SelectSeq(footText, LAMBDA it : ~IsFootDef(it))
    /\ footPc' = "refs"
    /\ UNCHANGED <<footnoteRefs, footnoteCounter, footSrc, notFoot>>

\* lines 286-296: replace the references by numbered links
NumberFootnoteRefs ==
    /\ footPc = "refs"
    /\ LET r == NumberFrom(footText, 1,
                    [out |-> <<>>, refs |-> [n \in FootNames |-> 0], counter |-> 1])
       IN  /\ footText' = r.out
           /\ footnoteRefs' = r.refs
           /\ footnoteCounter' = r.counter
    /\ footPc' = "done"
    /\ UNCHANGED <<footnoteDefs, footSrc, notFoot>>

FootInit ==
    /\ footText \in UNION {[1..n -> FootItems] : n \in 0..MaxFootItems}
    /\ footnoteDefs = {}
    /\ footnoteRefs = [n \in FootNames |-> 0]
    /\ footnoteCounter = 0
    /\ footSrc = footText
    /\ footPc = "defs"

\* ---- properties of the footnote pass
\* the references of the source, in text order, definitions left aside
SourceRefs == SelectSeq(footSrc, IsFootRef)
RenderedSups == SelectSeq(footText, LAMBDA it : it.k = "sup")
\* the position of the first reference to the name referenced at i
FirstRef(refs, i) ==
    CHOOSE j \in 1..i : refs[j].name = refs[i].name
                        /\ \A h \in 1..(j - 1) : refs[h].name # refs[i].name
\* how many distinct names are referenced up to position j
DistinctUpTo(refs, j) == Cardinality({refs[h].name : h \in 1..j})

TitleMarker == Ch("{{title}}")
ContentMarker == Ch("{{content}}")
NavigationMarker == Ch("{{navigation}}")
HeadEnd == Ch("</head>")
LogoPicture == Ch("<picture>..</picture>")
\* DEFAULT_TEMPLATE, in the order of its lines: <title>{{title}}</title> (426),
\* </head> (436), the logo (441), {{navigation}} (458), {{content}} (466)
DEFAULT_TEMPLATE ==
    <<Ch("<title>"), TitleMarker, Ch("</title>"), HeadEnd, LogoPicture,
      NavigationMarker, ContentMarker, Ch("</html>")>>
TitleSuffix == Ch(" | Nergy")
AdditionalScripts == Ch("<script>")

\* what a title, a rendered content or a navigation may hold: text, the two
\* characters "$$" or "$&", the text of a marker
PageChars == {Ch("x"), Ch("$$"), Ch("$&"), NavigationMarker}
PageTexts == UNION {[1..n -> PageChars] : n \in 1..MaxPageText}

\* lines 1127-1141: both branches search for the logo markup; the first
\* replaces it by itself, the second looks for the markup without its
\* closing </picture>, which the template does not contain
ReplaceLogo(page, webp) ==
    IF webp THEN StringReplace(page, LogoPicture, <<LogoPicture>>)
    ELSE StringReplace(page, Ch("<picture>..<span>"), <<Ch("<img><span>")>>)

\* generateHTML(content, meta, navigation)
GenerateHTML ==
    /\ pagePc = "call"
    /\ LET h0 == ReplaceLogo(DEFAULT_TEMPLATE, webpLogoExists)
           h1 == StringReplace(h0, TitleMarker, Append(metaTitle, TitleSuffix))
           h2 == StringReplace(h1, ContentMarker, pageContent)
           h3 == StringReplace(h2, NavigationMarker, navigation)
       IN  html' = StringReplace(h3, HeadEnd, <<AdditionalScripts, HeadEnd>>)
    /\ pagePc' = "done"
    /\ UNCHANGED <<metaTitle, pageContent, navigation, webpLogoExists, notPage>>

PageInit ==
    /\ html = <<>>
    /\ metaTitle \in PageTexts
    /\ pageContent \in PageTexts
    /\ navigation \in PageTexts
    /\ webpLogoExists \in BOOLEAN
    /\ pagePc = "call"

\* ---- properties of the assembled page
\* the template with each marker replaced once by its value as it is
ExpectedPage ==
    <<Ch("<title>")>> \o metaTitle \o <<TitleSuffix, Ch("</title>"),
      AdditionalScripts, HeadEnd, LogoPicture>> \o navigation \o pageContent
      \o <<Ch("</html>")>>

\* C7: the generated page is the template with {{title}}, {{navigation}}
\* and {{content}} each replaced once by the title, the navigation and the
\* content inserted as they are, and none of the three marker strings is
\* left in the page.
C7_TemplateMarkers ==
    pagePc = "done" =>
        /\ html = ExpectedPage
        /\ \A m \in {TitleMarker, ContentMarker, NavigationMarker} :
              Occurrences(html, <<m>>) = 0

\* =====================================================================
\* The batch of build()
\* =====================================================================
\* what a document holds that matters to the batch: a directive whose
\* script is missing ("script"), a malformed table ("table"), both, neither
DocKinds == SUBSET {"script", "table"}

\* the steps of one file's callback, in the order of lines 1531-1597:
\* read (1029-1053), interpolate (1056), toc (1059), parse (1062),
\* template (1065), cache (1068), html (1557-1583), mkdir (1586), write (1589)
\* an order of the steps that writes the page before the template pass
StagesWriteEarly ==
    <<"read", "interpolate", "toc", "parse", "write", "template", "cache", "html", "mkdir">>

Stages ==
    <<"read", "interpolate", "toc", "parse", "template", "cache", "html", "mkdir", "write">>
StageIndex(stage) == CHOOSE k \in 1..Len(Stages) : Stages[k] = stage
IsStage(pc) == \E k \in 1..Len(Stages) : Stages[k] = pc
AfterStage(stage) ==
    IF StageIndex(stage) = Len(Stages) THEN "ok" ELSE Stages[StageIndex(stage) + 1]
\* the calls that are not wrapped in a try of their own: Deno.readTextFile
\* (1029), ensureDir (1586), Deno.writeTextFile (1589)
Throwing == {"read", "mkdir", "write"}

\* executeLuaScript returns a placeholder for a missing script (861-864);
\* parseMarkdown renders what it can of a malformed table (222-245)
SoftErrorAt(kind, stage) ==
    IF stage = "interpolate" THEN kind \cap {"script"}
    ELSE IF stage = "parse" THEN kind \cap {"table"}
    ELSE {}

\* an error that ends the batch: every file still in flight goes down with it
Rethrow(pcs, f) == [g \in DOMAIN pcs |-> IF pcs[g] = "ok" THEN "ok" ELSE "failed"]

\* catch (error) { ...; return { success: false, filePath, error }; }
Catch(pcs, f) == [pcs EXCEPT ![f] = "failed"]

\* lines 1494-1531: the scan, then markdownFiles.map starts every callback,
\* each running up to its first await
StartBatch ==
    /\ buildPc = "start"
    /\ buildPc' = "batch"
    /\ filePc' = [f \in DOMAIN markdownFiles |-> Stages[1]]
    /\ UNCHANGED <<markdownFiles, maxConcurrency, stagesDone, thrown, softErrors, dist,
                   processedFiles, successful, failed, notBuild>>

\* the awaited call of a file returns and its callback runs to the next await
StageCompletes(f) ==
    /\ buildPc = "batch"
    /\ IsStage(filePc[f]) /\ filePc[f] # "write"
    /\ stagesDone' = [stagesDone EXCEPT ![f] = @ \cup {filePc[f]}]
    /\ softErrors' = [softErrors EXCEPT ![f] = @ \cup SoftErrorAt(markdownFiles[f], filePc[f])]
    /\ filePc' = [filePc EXCEPT ![f] = AfterStage(@)]
    /\ UNCHANGED <<buildPc, markdownFiles, maxConcurrency, thrown, dist, processedFiles,
                   successful, failed, notBuild>>

\* lines 1589-1597: await Deno.writeTextFile(outputPath, html) returns, the
\* metrics are recorded and the callback returns { success: true, ... }
WriteTextFile(f) ==
    /\ buildPc = "batch"
    /\ filePc[f] = "write"
    /\ dist' = dist \cup {f}
    /\ stagesDone' = [stagesDone EXCEPT ![f] = @ \cup {"write"}]
    /\ processedFiles' = processedFiles + 1
    /\ filePc' = [filePc EXCEPT ![f] = AfterStage(@)]
    /\ UNCHANGED <<buildPc, markdownFiles, maxConcurrency, thrown, softErrors, successful, failed, notBuild>>

\* the awaited call of a file throws; lines 1599-1602 catch it
StageThrows(f) ==
    /\ buildPc = "batch"
    /\ filePc[f] \in Throwing
    /\ thrown' = [thrown EXCEPT ![f] = filePc[f]]
    /\ filePc' = Catch(filePc, f)
    /\ UNCHANGED <<buildPc, markdownFiles, maxConcurrency, stagesDone, softErrors, dist,
                   processedFiles, successful, failed, notBuild>>

\* lines 1606-1611: Promise.all resolves when every callback returned
BuildSummary ==
    /\ buildPc = "batch"
    /\ \A f \in DOMAIN filePc : filePc[f] \in {"ok", "failed"}
    /\ successful' = Cardinality({f \in DOMAIN filePc : filePc[f] = "ok"})
    /\ failed' = Cardinality({f \in DOMAIN filePc : filePc[f] # "ok"})
    /\ buildPc' = "done"
    /\ UNCHANGED <<markdownFiles, maxConcurrency, filePc, stagesDone, thrown, softErrors, dist,
                   processedFiles, notBuild>>

\* "maxConcurrency": 4 of the documented optimization.config.json
DocumentedMaxConcurrency == 4
\* Cache TTL: 5 minutes
CacheTTL == 5
\* const CACHE_TTL = 5 * 60 * 1000, in minutes
CACHE_TTL == 5

BuildInit ==
    /\ buildPc = "start"
    /\ markdownFiles \in UNION {[1..n -> DocKinds] : n \in 1..NumFiles}
    /\ maxConcurrency = DocumentedMaxConcurrency
    /\ filePc = [f \in DOMAIN markdownFiles |-> "new"]
    /\ stagesDone = [f \in DOMAIN markdownFiles |-> {}]
    /\ thrown = [f \in DOMAIN markdownFiles |-> ""]
    /\ softErrors = [f \in DOMAIN markdownFiles |-> {}]
    /\ dist = {}
    /\ processedFiles = 0
    /\ successful = 0
    /\ failed = 0

\* a build under any configured limit up to the documented one
PoolInit ==
    /\ buildPc = "start"
    /\ markdownFiles \in UNION {[1..n -> DocKinds] : n \in 1..NumFiles}
    /\ maxConcurrency \in 1..DocumentedMaxConcurrency
    /\ filePc = [f \in DOMAIN markdownFiles |-> "new"]
    /\ stagesDone = [f \in DOMAIN markdownFiles |-> {}]
    /\ thrown = [f \in DOMAIN markdownFiles |-> ""]
    /\ softErrors = [f \in DOMAIN markdownFiles |-> {}]
    /\ dist = {}
    /\ processedFiles = 0
    /\ successful = 0
    /\ failed = 0

\* ---- properties of the batch
\* the documents whose callback has started and not yet returned
InFlight == {f \in DOMAIN filePc : IsStage(filePc[f])}

\* C12: at no moment of a build are more documents in processing than the
\* configured maxConcurrency.
C12_BoundedPool == Cardinality(InFlight) <= maxConcurrency

\* the callback of f can take its next step
CanProceed(f) == ENABLED (StageCompletes(f) \/ WriteTextFile(f))

\* C8: a file is reported failed only when a call of its own threw; while
\* the batch runs every file that has not finished can take its next step,
\* whatever happened to the others, and a file whose own calls all returned
\* is written; at the end every file is counted once, as succeeded or as
\* failed, so the two counts add up to the number of files found.
C8_BatchIsolation ==
    /\ \A f \in DOMAIN filePc :
          /\ filePc[f] = "failed" => thrown[f] # ""
          /\ (buildPc = "batch" /\ IsStage(filePc[f])) => CanProceed(f)
          /\ filePc[f] = "ok" => f \in dist
    /\ buildPc = "done" =>
          /\ \A f \in DOMAIN filePc :
                /\ filePc[f] \in {"ok", "failed"}
                /\ thrown[f] = "" => f \in dist
          /\ successful = Cardinality({f \in DOMAIN filePc : filePc[f] = "ok"})
          /\ failed = Cardinality({f \in DOMAIN filePc : filePc[f] = "failed"})
          /\ successful + failed = Len(markdownFiles)

\* a batch that ended with its first file failed at the read and every
\* other file written
C8_Witness ==
    /\ buildPc = "done"
    /\ Len(markdownFiles) = NumFiles
    /\ thrown[1] = "read"
    /\ failed = 1
    /\ successful = NumFiles - 1
    /\ dist = 2..NumFiles

Dates == 0..MaxDate
PostNames == {"a", "b", "c"}
\* a directory entry: the index, a markdown post, a file that is no markdown
IndexEntry == [name |-> "index", md |-> TRUE, date |-> 0]
AssetEntry == [name |-> "logo", md |-> FALSE, date |-> 0]
PostEntry(name, date) == [name |-> name, md |-> TRUE, date |-> date]
DirEntries == {IndexEntry, AssetEntry} \cup {PostEntry(n, d) : n \in PostNames, d \in Dates}
\* what Deno.readDir may return: the entries in any order, names distinct
Listings ==
    {l \in UNION {[1..n -> DirEntries] : n \in 1..MaxEntries} :
        /\ \E i \in DOMAIN l : l[i] = IndexEntry
        /\ \A i, j \in DOMAIN l : l[i].name = l[j].name => i = j}

TocMarker == [k |-> "marker", name |-> "{{routes:toc}}", date |-> 0]
TocText == [k |-> "text", name |-> "", date |-> 0]
\* <div class="blog-card"> ... ${post.title} ... ${post.date} ... </div>
BlogCard(post) == [k |-> "card", name |-> post.name, date |-> post.date]
ErrorParagraph == [k |-> "error", name |-> "Error loading blog posts.", date |-> 0]
IndexPaths ==
    {<<"routes", "index.md">>, <<"routes", "blogs", "index.md">>,
     <<"routes", "docs", "index.md">>}
\* a document that is no index
OtherPaths == {<<"routes", "blogs", "post.md">>}

\* content.includes(marker)
HasTocMarker(text) == \E i \in DOMAIN text : text[i] = TocMarker
\* filePath.includes('/blogs/index.md')
IncludesBlogsIndex(path) ==
    \E i \in 2..(Len(path) - 1) : path[i] = "blogs" /\ path[i + 1] = "index.md"

\* lines 903-932: entry.isFile && entry.name.endsWith('.md') &&
\* entry.name !== 'index.md', pushed in the order of the listing
CollectPosts(l) == SelectSeq(l, LAMBDA e : e.md /\ e.name # "index")

\* (a, b) => new Date(b.date).getTime() - new Date(a.date).getTime(); a NaN
\* result counts as +0 in Array.prototype.sort
SortCompare(a, b) == IF a.date = 0 \/ b.date = 0 THEN 0 ELSE b.date - a.date
\* a consistent comparator in the sense of Array.prototype.sort
ConsistentCompare(posts) ==
    \A i, j, h \in DOMAIN posts :
        (SortCompare(posts[i], posts[j]) = 0 /\ SortCompare(posts[j], posts[h]) = 0)
            => SortCompare(posts[i], posts[h]) = 0
RECURSIVE InsertSorted(_, _)
InsertSorted(x, sorted) ==
    IF sorted = <<>> THEN <<x>>
    ELSE IF SortCompare(x, Head(sorted)) < 0 THEN <<x>> \o sorted
    ELSE <<Head(sorted)>> \o InsertSorted(x, Tail(sorted))
RECURSIVE StableSort(_)
StableSort(posts) ==
    IF posts = <<>> THEN <<>>
    ELSE InsertSorted(posts[Len(posts)], StableSort(SubSeq(posts, 1, Len(posts) - 1)))
SeqPermutations(posts) ==
    {p \in [DOMAIN posts -> {posts[i] : i \in DOMAIN posts}] :
        \A i, j \in DOMAIN posts : p[i] = p[j] => i = j}
\* blogPosts.sort(comparefn): the stable sorted order under a consistent
\* comparator, an implementation-defined order otherwise
ArraySort(posts) ==
    IF ConsistentCompare(posts) THEN {StableSort(posts)} ELSE SeqPermutations(posts)

\* content.replace(marker, html): the first marker only
ReplaceTocMarker(text, items) ==
    LET k == CHOOSE i \in DOMAIN text :
                 text[i] = TocMarker /\ \A j \in 1..(i - 1) : text[j] # TocMarker
    IN  SubSeq(text, 1, k - 1) \o items \o SubSeq(text, k + 1, Len(text))

\* lines 880-888: no marker, or not the index of blogs: content as it is
TocLeftAlone ==
    /\ tocPc = "call"
    /\ ~HasTocMarker(tocContent) \/ ~IncludesBlogsIndex(tocPath)
    /\ tocPc' = "done"
    /\ UNCHANGED <<tocPath, tocContent, listing, blogPosts, notToc>>

\* lines 890-960: read the directory, collect, sort, replace the marker
TocExpanded ==
    /\ tocPc = "call"
    /\ HasTocMarker(tocContent) /\ IncludesBlogsIndex(tocPath)
    /\ \E sorted \in ArraySort(CollectPosts(listing)) :
          /\ blogPosts' = sorted
          /\ tocContent' = ReplaceTocMarker(tocContent,
                               [i \in DOMAIN sorted |-> BlogCard(sorted[i])])
    /\ tocPc' = "done"
    /\ UNCHANGED <<tocPath, listing, notToc>>

\* lines 962-965: Deno.readDir or Deno.readTextFile threw
TocReadFails ==
    /\ tocPc = "call"
    /\ HasTocMarker(tocContent) /\ IncludesBlogsIndex(tocPath)
    /\ tocContent' = ReplaceTocMarker(tocContent, <<ErrorParagraph>>)
    /\ tocPc' = "error"
    /\ UNCHANGED <<tocPath, listing, blogPosts, notToc>>

TocInit ==
    /\ tocPath \in IndexPaths \cup OtherPaths
    /\ tocContent \in {<<TocText>>, <<TocText, TocMarker, TocText>>}
    /\ listing \in Listings
    /\ blogPosts = <<>>
    /\ tocPc = "call"

\* ---- properties of the table of contents
TocCards == SelectSeq(tocContent, LAMBDA it : it.k = "card")
SiblingPosts == {listing[i].name : i \in {j \in DOMAIN listing :
                     listing[j].md /\ listing[j].name # "index"}}

\* the index.md of a directory below routes
IsSubdirIndex(path) == Len(path) >= 3 /\ path[Len(path)] = "index.md"
\* the content given to the call held the marker
HadTocMarker == tocContent # <<TocText>>

\* C10: when the index of a subdirectory holds the marker and the directory
\* was read, the marker is replaced by exactly one card per sibling markdown
\* file, the index excluded, and of two cards that carry a date the earlier
\* card never has the older date, whatever the order of the listing.
C10_TocOrdering ==
    (tocPc = "done" /\ IsSubdirIndex(tocPath) /\ Len(tocContent) >= 3) =>
        /\ ~HasTocMarker(tocContent)
        /\ Len(TocCards) = Cardinality(SiblingPosts)
        /\ {TocCards[i].name : i \in DOMAIN TocCards} = SiblingPosts
        /\ \A i, j \in DOMAIN TocCards :
              (i < j /\ TocCards[i].date # 0 /\ TocCards[j].date # 0)
                  => TocCards[i].date >= TocCards[j].date

\* C11: a marker in the index.md of a subdirectory is replaced by the cards
\* of the markdown files of that directory; a marker in any other document,
\* the root index.md included, is left as it stands.
C11_TocScope ==
    (tocPc = "done" /\ HadTocMarker) =>
        IF IsSubdirIndex(tocPath)
        THEN /\ ~HasTocMarker(tocContent)
             /\ Len(TocCards) = Cardinality(SiblingPosts)
             /\ {TocCards[i].name : i \in DOMAIN TocCards} = SiblingPosts
        ELSE tocContent = <<TocText, TocMarker, TocText>>

\* =====================================================================
\* Inline passes: bold, italic, strikethrough, inline code
\* =====================================================================
\* A line is a sequence of one-character strings; a tag that a pass has
\* inserted is one string.
\* text[p..] starts with delim
StartsAt(text, p, delim) ==
    /\ p + Len(delim) - 1 <= Len(text)
    /\ SubSeq(text, p, p + Len(delim) - 1) = delim
\* the first place at or after from where delim stands, 0 if none
FindDelim(text, from, delim) ==
    LET hits == {q \in from..Len(text) : StartsAt(text, q, delim)}
    IN  IF hits = {} THEN 0 ELSE CHOOSE q \in hits : \A r \in hits : q <= r

\* text.replace(/D(.*?)D/g, '<tag>$1</tag>') from position p on: the lazy
\* group ends at the first closing delimiter
RECURSIVE ReplaceLazy(_, _, _, _, _)
ReplaceLazy(text, p, delim, open, close) ==
    IF p > Len(text) THEN <<>>
    ELSE LET q == FindDelim(text, p + Len(delim), delim) IN
         IF StartsAt(text, p, delim) /\ q # 0
         THEN <<open>> \o SubSeq(text, p + Len(delim), q - 1) \o <<close>>
                  \o ReplaceLazy(text, q + Len(delim), delim, open, close)
         ELSE <<text[p]>> \o ReplaceLazy(text, p + 1, delim, open, close)

\* text.replace(/`([^`]+)`/g, '<code>$1</code>') from position p on: the
\* group is not empty and ends at the next backquote
RECURSIVE ReplaceCode(_, _)
ReplaceCode(text, p) ==
    IF p > Len(text) THEN <<>>
    ELSE LET q == FindDelim(text, p + 1, <<"bq">>) IN
         IF text[p] = "bq" /\ q > p + 1
         THEN <<"<code>">> \o SubSeq(text, p + 1, q - 1) \o <<"</code>">>
                  \o ReplaceCode(text, q + 1)
         ELSE <<text[p]>> \o ReplaceCode(text, p + 1)

\* lines 319-327, in their order
Bold(text) == ReplaceLazy(text, 1, <<"*", "*">>, "<strong>", "</strong>")
ItalicStar(text) == ReplaceLazy(text, 1, <<"*">>, "<em>", "</em>")
ItalicUnder(text) == ReplaceLazy(text, 1, <<"_">>, "<em>", "</em>")
Strikethrough(text) == ReplaceLazy(text, 1, <<"~", "~">>, "<del>", "</del>")
InlineCode(text) == ReplaceCode(text, 1)
InlinePasses(text) == InlineCode(Strikethrough(ItalicUnder(ItalicStar(Bold(text)))))

\* the spans a line is written from: plain text, **x**, *x*, `x`
Span(kind, txt) == [kind |-> kind, txt |-> txt]
\* what a span may hold: a letter, a glob such as *.md, a name such as a_b_c
SpanTexts == {<<"a">>, <<"*", "a">>, <<"a", "_", "b", "_", "c">>}
Spans ==
    {Span("text", <<" ">>), Span("text", <<"a">>), Span("bold", <<"a">>),
     Span("italic", <<"a">>)} \cup {Span("code", x) : x \in SpanTexts}
\* the markdown of a span; "bq" stands for the backquote
SpanSource(sp) ==
    CASE sp.kind = "text"   -> sp.txt
      [] sp.kind = "bold"   -> <<"*", "*">> \o sp.txt \o <<"*", "*">>
      [] sp.kind = "italic" -> <<"*">> \o sp.txt \o <<"*">>
      [] sp.kind = "code"   -> <<"bq">> \o sp.txt \o <<"bq">>
RECURSIVE LineOf(_)
LineOf(segs) == IF segs = <<>> THEN <<>> ELSE SpanSource(Head(segs)) \o LineOf(Tail(segs))

\* the chain of replaces applied to the line
ApplyInlinePasses ==
    /\ emphPc = "call"
    /\ emphLine' = InlinePasses(emphLine)
    /\ emphPc' = "done"
    /\ UNCHANGED <<emphSegs, notEmph>>

EmphInit ==
    /\ emphSegs \in UNION {[1..n -> Spans] : n \in 1..MaxSpans}
    /\ emphLine = LineOf(emphSegs)
    /\ emphPc = "call"

\* ---- properties of the inline passes
SpanHtml(sp) ==
    CASE sp.kind = "text"   -> sp.txt
      [] sp.kind = "bold"   -> <<"<strong>">> \o sp.txt \o <<"</strong>">>
      [] sp.kind = "italic" -> <<"<em>">> \o sp.txt \o <<"</em>">>
      [] sp.kind = "code"   -> <<"<code>">> \o sp.txt \o <<"</code>">>
RECURSIVE HtmlOf(_)
HtmlOf(segs) == IF segs = <<>> THEN <<>> ELSE SpanHtml(Head(segs)) \o HtmlOf(Tail(segs))

\* no **x** or *x* span stands right after another one, where the runs of
\* asterisks could be read in more than one way
SeparatedStars ==
    \A i \in 1..(Len(emphSegs) - 1) :
        ~(emphSegs[i].kind \in {"bold", "italic"} /\ emphSegs[i + 1].kind \in {"bold", "italic"})

\* C13: a line written from plain text and non-nested **x**, *x* and `x`
\* spans is rendered with each **x** as <strong>x</strong>, each *x* as
\* <em>x</em> and each `x` as <code>x</code>, the rest as it was: no <em>
\* from a bold marker, no asterisk left over.
C13_EmphasisPasses ==
    (emphPc = "done" /\ SeparatedStars) => emphLine = HtmlOf(emphSegs)

\* =====================================================================
\* Frontmatter values
\* =====================================================================
\* String.prototype.trim on a sequence of one-character strings
RECURSIVE TrimStr(_)
TrimStr(str) ==
    IF str = <<>> THEN <<>>
    ELSE IF Head(str) = " " THEN TrimStr(Tail(str))
    ELSE IF str[Len(str)] = " " THEN TrimStr(SubSeq(str, 1, Len(str) - 1))
    ELSE str
\* line.indexOf(':'), 0 when there is none
ColonIndex(line) ==
    LET hits == {k \in DOMAIN line : line[k] = ":"}
    IN  IF hits = {} THEN 0 ELSE CHOOSE k \in hits : \A h \in hits : k <= h
\* String.prototype.split(','): always at least one piece, "" gives <<"">>
RECURSIVE SplitComma(_)
SplitComma(str) ==
    LET hits == {k \in DOMAIN str : str[k] = ","} IN
    IF hits = {} THEN <<str>>
    ELSE LET k == CHOOSE x \in hits : \A y \in hits : x <= y
         IN  <<SubSeq(str, 1, k - 1)>> \o SplitComma(SubSeq(str, k + 1, Len(str)))
ArrayValue(items) == [array |-> TRUE, items |-> items, text |-> <<>>]
StringValue(text) == [array |-> FALSE, items |-> <<>>, text |-> text]
\* lines 1096-1103: the bracket form gives an array, anything else a string
ParseValue(value) ==
    IF value # <<>> /\ Head(value) = "[" /\ value[Len(value)] = "]"
    THEN LET arrayContent == SubSeq(value, 2, Len(value) - 1)
             pieces == SplitComma(arrayContent)
         IN  ArrayValue([k \in DOMAIN pieces |-> TrimStr(pieces[k])])
    ELSE StringValue(value)

\* lines 1089-1104 for one line of the frontmatter
ExtractMetadata ==
    /\ fmPc = "call"
    /\ LET colonIndex == ColonIndex(fmLine) IN
       IF colonIndex # 0
       THEN fmMeta' = {<<TrimStr(SubSeq(fmLine, 1, colonIndex - 1)),
                         ParseValue(TrimStr(SubSeq(fmLine, colonIndex + 1, Len(fmLine))))>>}
       ELSE fmMeta' = {}
    /\ fmPc' = "done"
    /\ UNCHANGED <<fmItems, fmLine, notFm>>

\* the texts of the items of a written value
ItemTexts == {<<"a">>, <<"b", "c">>, <<"a", " ", "b">>}
\* "[x1, x2, ..., xn]", each item after the first with a space before it
RECURSIVE JoinItems(_, _)
JoinItems(items, pad) ==
    IF items = <<>> THEN <<>>
    ELSE IF Len(items) = 1 THEN Head(items)
    ELSE Head(items) \o <<",">> \o pad \o JoinItems(Tail(items), pad)
BracketValue(items, pad) == <<"[">> \o JoinItems(items, pad) \o <<"]">>
\* values that are not in bracket syntax
PlainValues == {<<"a">>, <<"[", "a">>, <<"a", ",", "b">>}

FmInit ==
    /\ \/ /\ fmItems \in UNION {[1..n -> ItemTexts] : n \in 0..MaxItems}
          /\ \E pad \in {<<>>, <<" ">>} :
                fmLine = <<"t", ":", " ">> \o BracketValue(fmItems, pad)
       \/ /\ fmItems = <<>>
          /\ \E v \in PlainValues : fmLine = <<"t", ":", " ">> \o v
    /\ fmMeta = {}
    /\ fmPc = "call"

\* ---- properties of the frontmatter values
FmWrittenValue == SubSeq(fmLine, 4, Len(fmLine))
FmBracket == Head(FmWrittenValue) = "[" /\ FmWrittenValue[Len(FmWrittenValue)] = "]"

\* C14: a value written as [x1, ..., xn] parses to the sequence of its n
\* items in their order, each without surrounding whitespace, for every n
\* from 0 on; a value not in bracket syntax parses to the string as written.
C14_FrontmatterArrays ==
    fmPc = "done" =>
        fmMeta = {<<<<"t">>, IF FmBracket THEN ArrayValue(fmItems)
                                         ELSE StringValue(FmWrittenValue)>>}

\* =====================================================================
\* The order of the passes of parseMarkdown
\* =====================================================================
\* The text is a sequence of tokens. A token stands for a piece of text by
\* the syntax it is written in (syn); html tells that a pass has rewritten it.
Tok(syn) == [syn |-> syn, html |-> FALSE]
\* the passes in the order of the source: script protect (40-43), images
\* (48-83), links (86-89), lists (91-138), code block protect (140-151),
\* definition lists (153-220), tables (222-245), task lists (247-252),
\* abbreviations (256-268), footnotes (270-297), script restore (300-302),
\* headers (307-318), emphasis (320-327), blockquotes (329-336), rules
\* (338), line breaks and paragraphs (340-377), code block restore (380-402)
PassOrder ==
    <<"protectScripts", "image", "link", "list", "protectCode", "deflist",
      "table", "task", "abbr", "footnote", "restoreScripts", "header",
      "emphasis", "blockquote", "hr", "paragraph", "restoreCode">>
\* the syntax a transform matches; the task pass matches only the <li>
\* elements that the list pass has written
Rewrites(pass) ==
    CASE pass = "list" -> {"list", "task"}
      [] pass = "task" -> {}
      [] pass = "paragraph" -> {"newline"}
      [] OTHER -> {pass}
Transforms ==
    {PassOrder[k] : k \in 1..Len(PassOrder)}
        \ {"protectScripts", "protectCode", "restoreScripts", "restoreCode"}
\* what a fenced block or a script element may hold: a word, a newline, a
\* piece written in the syntax of one of the transforms
SynKinds ==
    {"word", "newline", "image", "link", "list", "deflist", "table", "task",
     "abbr", "footnote", "header", "emphasis", "blockquote", "hr"}
Containers == {<<"fence", "fence">>, <<"<script>", "</script>">>}

\* the first element that opens with open and ends with close: its bounds
ElementAt(text, open, close) ==
    LET opens == {k \in DOMAIN text : text[k].syn = open}
        i == CHOOSE k \in opens : \A h \in opens : k <= h
        closes == {k \in DOMAIN text : k > i /\ text[k].syn = close}
        j == CHOOSE k \in closes : \A h \in closes : k <= h
    IN  <<i, j>>
HasElement(text, open, close) ==
    \E i, j \in DOMAIN text : i < j /\ text[i].syn = open /\ text[j].syn = close

\* text.replace(regex, callback) for a transform: every token of its syntax
\* that stands in the text is rewritten
ApplyTransform(text, pass) ==
    [k \in DOMAIN text |->
        IF text[k].syn \in Rewrites(pass) THEN [text[k] EXCEPT !.html = TRUE] ELSE text[k]]
\* replace the token of a placeholder by the tokens it stands for
Unfold(text, placeholder, tokens) ==
    LET hits == {k \in DOMAIN text : text[k].syn = placeholder} IN
    IF hits = {} THEN text
    ELSE LET k == CHOOSE x \in hits : TRUE
         IN  SubSeq(text, 1, k - 1) \o tokens \o SubSeq(text, k + 1, Len(text))

\* lines 40-43: scriptBlocks.push(match), the element replaced by a placeholder
ProtectScriptBlocks ==
    /\ pipePc # 0 /\ pipePc <= Len(PassOrder) /\ PassOrder[pipePc] = "protectScripts"
    /\ IF HasElement(pipeDoc, "<script>", "</script>")
       THEN LET b == ElementAt(pipeDoc, "<script>", "</script>") IN
            /\ scriptBlocks' = Append(scriptBlocks, SubSeq(pipeDoc, b[1], b[2]))
            /\ pipeDoc' = SubSeq(pipeDoc, 1, b[1] - 1) \o <<Tok("__SCRIPT_BLOCK_0__")>>
                              \o SubSeq(pipeDoc, b[2] + 1, Len(pipeDoc))
       ELSE UNCHANGED <<scriptBlocks, pipeDoc>>
    /\ pipePc' = pipePc + 1
    /\ UNCHANGED <<pipeCodeBlocks, pipeSrc, notPipe>>

\* lines 140-151: rawCodeBlocks.push({lang, code}), the block replaced by a
\* placeholder
ProtectFencedBlocks ==
    /\ pipePc # 0 /\ pipePc <= Len(PassOrder) /\ PassOrder[pipePc] = "protectCode"
    /\ IF HasElement(pipeDoc, "fence", "fence")
       THEN LET b == ElementAt(pipeDoc, "fence", "fence") IN
            /\ pipeCodeBlocks' = Append(pipeCodeBlocks, SubSeq(pipeDoc, b[1] + 1, b[2] - 1))
            /\ pipeDoc' = SubSeq(pipeDoc, 1, b[1] - 1) \o <<Tok("@@CODEBLOCK0@@")>>
                              \o SubSeq(pipeDoc, b[2] + 1, Len(pipeDoc))
       ELSE UNCHANGED <<pipeCodeBlocks, pipeDoc>>
    /\ pipePc' = pipePc + 1
    /\ UNCHANGED <<scriptBlocks, pipeSrc, notPipe>>

\* one of the transforms, applied to the text as it stands
TransformPass ==
    /\ pipePc # 0 /\ pipePc <= Len(PassOrder) /\ PassOrder[pipePc] \in Transforms
    /\ pipeDoc' = ApplyTransform(pipeDoc, PassOrder[pipePc])
    /\ pipePc' = pipePc + 1
    /\ UNCHANGED <<scriptBlocks, pipeCodeBlocks, pipeSrc, notPipe>>

\* lines 300-302: the placeholder replaced by scriptBlocks[index]
RestoreScriptBlocks ==
    /\ pipePc # 0 /\ pipePc <= Len(PassOrder) /\ PassOrder[pipePc] = "restoreScripts"
    /\ pipeDoc' = IF scriptBlocks = <<>> THEN pipeDoc
                  ELSE Unfold(pipeDoc, "__SCRIPT_BLOCK_0__", scriptBlocks[1])
    /\ pipePc' = pipePc + 1
    /\ UNCHANGED <<scriptBlocks, pipeCodeBlocks, pipeSrc, notPipe>>

\* lines 380-402: the placeholder replaced by <pre><code>...</code></pre>
\* around the stored code
RestoreFencedBlocks ==
    /\ pipePc # 0 /\ pipePc <= Len(PassOrder) /\ PassOrder[pipePc] = "restoreCode"
    /\ pipeDoc' = IF pipeCodeBlocks = <<>> THEN pipeDoc
                  ELSE Unfold(pipeDoc, "@@CODEBLOCK0@@",
                           <<Tok("<pre>")>> \o pipeCodeBlocks[1] \o <<Tok("</pre>")>>)
    /\ pipePc' = pipePc + 1
    /\ UNCHANGED <<scriptBlocks, pipeCodeBlocks, pipeSrc, notPipe>>

PipeInit ==
    /\ \E c \in Containers :
       \E body \in UNION {[1..n -> {Tok(s) : s \in SynKinds}] : n \in 1..MaxBody} :
           pipeDoc = <<Tok("word"), Tok(c[1])>> \o body \o <<Tok(c[2])>>
    /\ scriptBlocks = <<>>
    /\ pipeCodeBlocks = <<>>
    /\ pipeSrc = pipeDoc
    /\ pipePc = 1

\* ---- properties of the order of the passes
PipeDone == pipePc = Len(PassOrder) + 1
SrcBody == SubSeq(pipeSrc, 3, Len(pipeSrc) - 1)
SrcIsCode == pipeSrc # <<>> /\ pipeSrc[2].syn = "fence"
SrcIsScript == pipeSrc # <<>> /\ pipeSrc[2].syn = "<script>"
\* a transform has run
TransformHasRun == \E k \in 1..(pipePc - 1) : PassOrder[k] \in Transforms
\* a transform is still to run
TransformToRun == \E k \in pipePc..Len(PassOrder) : PassOrder[k] \in Transforms
\* the text between the bounds of the first element open ... close
BodyOf(text, open, close) ==
    LET b == ElementAt(text, open, close) IN SubSeq(text, b[1] + 1, b[2] - 1)

\* C15: for a text with a fenced code block, the block is out of the text
\* (kept in rawCodeBlocks) from before the first transform runs until the
\* last one has run, and the code that is restored at the end is the code
\* of the source, rewritten by no transform.
C15_CodeProtectedFirst ==
    SrcIsCode =>
        /\ (TransformHasRun /\ TransformToRun) =>
              (pipeCodeBlocks = <<SrcBody>> /\ ~HasElement(pipeDoc, "fence", "fence"))
        /\ PipeDone => BodyOf(pipeDoc, "<pre>", "</pre>") = SrcBody

\* C16: the text of a <script> element of the source stands unchanged in
\* the output of parseMarkdown.
C16_ScriptVerbatim ==
    (SrcIsScript /\ PipeDone) =>
        /\ HasElement(pipeDoc, "<script>", "</script>")
        /\ BodyOf(pipeDoc, "<script>", "</script>") = SrcBody

\* =====================================================================
\* Definition lists
\* =====================================================================
\* a line is a definition line ": text" ("def"), a line of plain text that
\* can be a term ("term"), or a line that is neither, such as an empty line
\* or a line of HTML ("other")
DefLineKinds == {"term", "def", "other"}
\* trimmedLine.match(/^:\s+(.+)$/)
IsDefinitionLine(kind) == kind = "def"
\* trimmedLine && !trimmedLine.startsWith('<') && ... (lines 177-182)
CanBeTerm(kind) == kind = "term"
\* nextLine ? nextLine.trim() : '' matched against the definition regex
NextIsDefinition(lines, i) == i + 1 <= Len(lines) /\ IsDefinitionLine(lines[i + 1])

DlOpen == [html |-> "<dl>", k |-> 0]
DlClose == [html |-> "</dl>", k |-> 0]
\* `<dt>${trimmedLine}</dt>`, `<dd>${definition}</dd>`, the line kept as it
\* is; k is the number of the source line
Dt(k) == [html |-> "<dt>", k |-> k]
Dd(k) == [html |-> "<dd>", k |-> k]
KeptLine(k) == [html |-> "line", k |-> k]

\* one iteration of the loop of lines 159-211
DefinitionLine ==
    /\ defPc = "loop" /\ defIndex <= Len(defLines)
    /\ IsDefinitionLine(defLines[defIndex])
    /\ defHtmlLines' = defHtmlLines \o (IF inDefinitionList THEN <<>> ELSE <<DlOpen>>)
                           \o <<Dd(defIndex)>>
    /\ inDefinitionList' = TRUE
    /\ defIndex' = defIndex + 1
    /\ UNCHANGED <<defLines, defPc, notDef>>

TermLine ==
    /\ defPc = "loop" /\ defIndex <= Len(defLines)
    /\ ~IsDefinitionLine(defLines[defIndex]) /\ CanBeTerm(defLines[defIndex])
    /\ LET closed == IF inDefinitionList THEN <<DlClose>> ELSE <<>> IN
       IF NextIsDefinition(defLines, defIndex)
       THEN /\ defHtmlLines' = defHtmlLines \o closed \o <<DlOpen, Dt(defIndex)>>
            /\ inDefinitionList' = TRUE
       ELSE /\ defHtmlLines' = defHtmlLines \o closed \o <<KeptLine(defIndex)>>
            /\ inDefinitionList' = FALSE
    /\ defIndex' = defIndex + 1
    /\ UNCHANGED <<defLines, defPc, notDef>>

OtherLine ==
    /\ defPc = "loop" /\ defIndex <= Len(defLines)
    /\ ~IsDefinitionLine(defLines[defIndex]) /\ ~CanBeTerm(defLines[defIndex])
    /\ defHtmlLines' = defHtmlLines \o (IF inDefinitionList THEN <<DlClose>> ELSE <<>>)
                           \o <<KeptLine(defIndex)>>
    /\ inDefinitionList' = FALSE
    /\ defIndex' = defIndex + 1
    /\ UNCHANGED <<defLines, defPc, notDef>>

\* lines 214-217: close any remaining open definition list
DefinitionListsEnd ==
    /\ defPc = "loop" /\ defIndex > Len(defLines)
    /\ defHtmlLines' = defHtmlLines \o (IF inDefinitionList THEN <<DlClose>> ELSE <<>>)
    /\ inDefinitionList' = FALSE
    /\ defPc' = "done"
    /\ UNCHANGED <<defLines, defIndex, notDef>>

DefInit ==
    /\ defLines \in UNION {[1..n -> DefLineKinds] : n \in 1..MaxDefLines}
    /\ defIndex = 1
    /\ inDefinitionList = FALSE
    /\ defHtmlLines = <<>>
    /\ defPc = "loop"

\* ---- properties of the definition lists
\* the output in which a run of term/definition groups with no other line
\* between them is one <dl> block
RECURSIVE OneBlockPerRun(_, _, _)
OneBlockPerRun(lines, i, open) ==
    IF i > Len(lines) THEN (IF open THEN <<DlClose>> ELSE <<>>)
    ELSE IF IsDefinitionLine(lines[i])
         THEN (IF open THEN <<>> ELSE <<DlOpen>>) \o <<Dd(i)>> \o OneBlockPerRun(lines, i + 1, TRUE)
    ELSE IF CanBeTerm(lines[i]) /\ NextIsDefinition(lines, i)
         THEN (IF open THEN <<>> ELSE <<DlOpen>>) \o <<Dt(i)>> \o OneBlockPerRun(lines, i + 1, TRUE)
    ELSE (IF open THEN <<DlClose>> ELSE <<>>) \o <<KeptLine(i)>>
             \o OneBlockPerRun(lines, i + 1, FALSE)

\* C20: consecutive term/definition groups with no other line between them
\* come out as one <dl> block holding one <dt> per term, each followed by
\* one <dd> per definition line of that term, and every <dl> is closed.
C20_DefinitionLists ==
    defPc = "done" => defHtmlLines = OneBlockPerRun(defLines, 1, FALSE)

\* =====================================================================
\* Table rows
\* =====================================================================
RowChars == {"|", " ", "x"}
\* String.prototype.split('|'): always at least one piece
RECURSIVE SplitPipe(_)
SplitPipe(str) ==
    LET hits == {k \in DOMAIN str : str[k] = "|"} IN
    IF hits = {} THEN <<str>>
    ELSE LET k == CHOOSE x \in hits : \A y \in hits : x <= y
         IN  <<SubSeq(str, 1, k - 1)>> \o SplitPipe(SubSeq(str, k + 1, Len(str)))
\* Array.prototype.slice(1, -1)
SliceInner(arr) == SubSeq(arr, 2, Len(arr) - 1)
\* row.split('|').slice(1, -1).map(cell => cell.trim())
RowCellsOf(row) ==
    LET inner == SliceInner(SplitPipe(row)) IN [k \in DOMAIN inner |-> TrimStr(inner[k])]
\* /^\|.*\|.*\n/ on one line: a pipe first and a second pipe behind it
MatchesPipeLine(line) ==
    /\ line # <<>> /\ Head(line) = "|"
    /\ \E k \in 2..Len(line) : line[k] = "|"

\* a line of the block behind the separator: lines 232 and 237-240
TableRow ==
    /\ rowPc = "line"
    /\ MatchesPipeLine(rowLine)
    /\ rowCells' = RowCellsOf(rowLine)
    /\ rowEmitted' = ~SkippedRow(RowCellsOf(rowLine))
    /\ rowPc' = "done"
    /\ UNCHANGED <<rowLine, notRow>>

\* a line the block pattern does not match is not a row of a table
NotATableRow ==
    /\ rowPc = "line"
    /\ ~MatchesPipeLine(rowLine)
    /\ rowPc' = "done"
    /\ UNCHANGED <<rowLine, rowCells, rowEmitted, notRow>>

RowInit ==
    /\ rowLine \in UNION {[1..n -> RowChars] : n \in 1..MaxRowLen}
    /\ rowCells = <<>>
    /\ rowEmitted = FALSE
    /\ rowPc = "line"

\* ---- properties of the table rows
\* the pieces of the line between its pipes, trimmed
RowPieces == LET p == SplitPipe(rowLine) IN [k \in DOMAIN p |-> TrimStr(p[k])]
WithContent(cells) == SelectSeq(cells, LAMBDA c : c # <<>>)
IsTableRow == rowPc = "done" /\ MatchesPipeLine(rowLine)

\* C21: a body row whose cells are all empty after trimming gives no <tr>,
\* whatever the number of columns, and no cell that has content is dropped
\* from a row.
C21_EmptyTableRows ==
    IsTableRow =>
        /\ WithContent(RowPieces) = <<>> => ~rowEmitted
        /\ WithContent(rowCells) = WithContent(RowPieces)

\* =====================================================================
\* Abbreviations
\* =====================================================================
\* The text is a sequence of words and of definition lines; a definition is
\* a sequence of words.
AbbrTerms == {"HTML", "Text"}
AbbrWords == {"HTML", "html", "Text", "x"}
AbbrDefinitions == {<<"x">>, <<"Text">>, <<"Hyper", "Text">>}
AbbrDefLine(term, def) == [kind |-> "def", w |-> term, def |-> def]
AbbrWord(w) == [kind |-> "word", w |-> w, def |-> <<>>]
AbbrItems ==
    {AbbrDefLine(t, d) : t \in AbbrTerms, d \in AbbrDefinitions}
        \cup {AbbrWord(w) : w \in AbbrWords}

\* a word of the output: of the text, or inside an inserted element as part
\* of its tag, of its title attribute or of its content
WordAt(w, at) == [w |-> w, at |-> at]
\* the 'i' flag of the RegExp
LowerCase(w) ==
    CASE w = "HTML" -> "html"
      [] w = "Text" -> "text"
      [] w = "Hyper" -> "hyper"
      [] OTHER -> w

\* `<abbr title="${abbrevDefs[abbr]}">${abbr}</abbr>`
RECURSIVE TitleWords(_)
TitleWords(def) ==
    IF def = <<>> THEN <<>> ELSE <<WordAt(Head(def), "title")>> \o TitleWords(Tail(def))
AbbrElement(def, inner) ==
    <<WordAt("abbr", "tag"), WordAt("title", "tag")>> \o TitleWords(def)
        \o <<WordAt(inner, "content"), WordAt("abbr", "tag")>>

\* markdown.replace(regex, ...) with \b<abbr>\b and the flags 'gi': every
\* word of the string that equals the term, case aside, wherever it stands
RECURSIVE ReplaceAbbr(_, _, _)
ReplaceAbbr(md, abbr, def) ==
    IF md = <<>> THEN <<>>
    ELSE (IF LowerCase(Head(md).w) = LowerCase(abbr)
          THEN AbbrElement(def, abbr)
          ELSE <<Head(md)>>) \o ReplaceAbbr(Tail(md), abbr, def)

\* Object.keys(abbrevDefs).forEach(...)
RECURSIVE ForEachAbbr(_, _, _)
ForEachAbbr(keys, defs, md) ==
    IF keys = <<>> THEN md
    ELSE ForEachAbbr(Tail(keys), defs, ReplaceAbbr(md, Head(keys), defs[Head(keys)]))

\* lines 258-262: abbrevDefs[abbr] = def for every definition line, which is
\* removed from the text
RECURSIVE CollectKeys(_, _)
CollectKeys(src, keys) ==
    IF src = <<>> THEN keys
    ELSE CollectKeys(Tail(src),
             IF Head(src).kind = "def" /\ \A k \in DOMAIN keys : keys[k] # Head(src).w
             THEN Append(keys, Head(src).w) ELSE keys)
RECURSIVE CollectDefs(_, _)
CollectDefs(src, defs) ==
    IF src = <<>> THEN defs
    ELSE CollectDefs(Tail(src),
             IF Head(src).kind = "def"
             THEN [defs EXCEPT ![Head(src).w] = Head(src).def] ELSE defs)
RECURSIVE TextWords(_)
TextWords(src) ==
    IF src = <<>> THEN <<>>
    ELSE (IF Head(src).kind = "word" THEN <<WordAt(Head(src).w, "text")>> ELSE <<>>)
             \o TextWords(Tail(src))

CollectAbbrevDefs ==
    /\ abbrPc = "collect"
    /\ abbrevKeys' = CollectKeys(abbrSrc, <<>>)
    /\ abbrevDefs' = CollectDefs(abbrSrc, [t \in AbbrTerms |-> <<>>])
    /\ abbrMarkdown' = TextWords(abbrSrc)
    /\ abbrPc' = "replace"
    /\ UNCHANGED <<abbrSrc, notAbbr>>

ReplaceAbbrevRefs ==
    /\ abbrPc = "replace"
    /\ abbrMarkdown' = ForEachAbbr(abbrevKeys, abbrevDefs, abbrMarkdown)
    /\ abbrPc' = "done"
    /\ UNCHANGED <<abbrSrc, abbrevKeys, abbrevDefs, notAbbr>>

AbbrInit ==
    /\ abbrSrc \in UNION {[1..n -> AbbrItems] : n \in 1..MaxAbbrItems}
    /\ abbrMarkdown = <<>>
    /\ abbrevKeys = <<>>
    /\ abbrevDefs = [t \in AbbrTerms |-> <<>>]
    /\ abbrPc = "collect"

\* ---- properties of the abbreviations
\* the collected term a word of the text is an occurrence of, "" for none
TermOf(w) ==
    LET hits == {k \in DOMAIN abbrevKeys : LowerCase(abbrevKeys[k]) = LowerCase(w)}
    IN  IF hits = {} THEN "" ELSE abbrevKeys[CHOOSE k \in hits : TRUE]
\* every occurrence wrapped in an element titled with the definition of its
\* term and holding the occurrence's own text
RECURSIVE WrappedOccurrences(_)
WrappedOccurrences(src) ==
    IF src = <<>> THEN <<>>
    ELSE (IF Head(src).kind # "word" THEN <<>>
          ELSE IF TermOf(Head(src).w) = "" THEN <<WordAt(Head(src).w, "text")>>
          ELSE AbbrElement(abbrevDefs[TermOf(Head(src).w)], Head(src).w))
             \o WrappedOccurrences(Tail(src))

\* C22: every whole-word occurrence of a collected term, in any letter case,
\* ends up wrapped in <abbr title="definition"> with the occurrence's own
\* text as content, and the rewrite for one term leaves the title and the
\* markup inserted for another term as they are.
C22_Abbreviations ==
    abbrPc = "done" => abbrMarkdown = WrappedOccurrences(abbrSrc)

\* =====================================================================
\* Tokens without a captured span
\* =====================================================================
\* An item of the text is ordinary text, a span that protection captures (a
\* fenced block, a <script> element, a code-block-container div), text the
\* author wrote that reads like the token of index n, or, after restoration
\* that found nothing, the empty string.
PlainText == [t |-> "text", n |-> 0]
ProtectedSpan == [t |-> "span", n |-> 0]
TokenText(n) == [t |-> "token", n |-> n]
EmptyText == [t |-> "empty", n |-> 0]
TokItems == {PlainText, ProtectedSpan} \cup {TokenText(n) : n \in 0..MaxTokenIndex}
TokVaults == {"codeblock", "script", "template"}

\* replace every span by the token of the next index and store it there
RECURSIVE ProtectSpans(_, _, _)
ProtectSpans(text, blocks, acc) ==
    IF text = <<>> THEN [text |-> acc, blocks |-> blocks]
    ELSE IF Head(text) = ProtectedSpan
         THEN ProtectSpans(Tail(text), Append(blocks, "span"),
                           Append(acc, TokenText(Len(blocks))))
         ELSE ProtectSpans(Tail(text), blocks, Append(acc, Head(text)))
\* blocks[parseInt(index)] is undefined behind the end and in a hole
Captured(blocks, n) == n + 1 <= Len(blocks) /\ blocks[n + 1] # ""

\* part_005:140-151
ProtectRawCodeBlocks ==
    /\ tokPc = "start" /\ tokVault = "codeblock"
    /\ LET r == ProtectSpans(tokText, <<>>, <<>>)
       IN  tokProtected' = r.text /\ tokBlocks' = r.blocks
    /\ tokPc' = "protected"
    /\ UNCHANGED <<tokVault, tokText, notTok>>
\* part_005:37-43
ProtectScripts ==
    /\ tokPc = "start" /\ tokVault = "script"
    /\ LET r == ProtectSpans(tokText, <<>>, <<>>)
       IN  tokProtected' = r.text /\ tokBlocks' = r.blocks
    /\ tokPc' = "protected"
    /\ UNCHANGED <<tokVault, tokText, notTok>>
\* serve.ts:238-246: blocks[i] = block with i from 1, so blocks[0] is a hole
ProtectContainers ==
    /\ tokPc = "start" /\ tokVault = "template"
    /\ LET r == ProtectSpans(tokText, <<"">>, <<>>)
       IN  tokProtected' = r.text /\ tokBlocks' = r.blocks
    /\ tokPc' = "protected"
    /\ UNCHANGED <<tokVault, tokText, notTok>>

\* const block = rawCodeBlocks[parseInt(index)]; if (!block) return match;
RestoreRawCodeBlock(item, blocks) ==
    IF item.t = "token" /\ Captured(blocks, item.n) THEN ProtectedSpan ELSE item
\* return scriptBlocks[parseInt(index)] || match;
RestoreScript(item, blocks) ==
    IF item.t = "token" /\ Captured(blocks, item.n) THEN ProtectedSpan ELSE item
\* return blocks[index] || '';
RestoreContainer(item, blocks) ==
    IF item.t = "token"
    THEN (IF Captured(blocks, item.n) THEN ProtectedSpan ELSE EmptyText)
    ELSE item

\* part_005:380-402
RestoreRawCodeBlocks ==
    /\ tokPc = "protected" /\ tokVault = "codeblock"
    /\ tokText' = [k \in DOMAIN tokProtected |-> RestoreRawCodeBlock(tokProtected[k], tokBlocks)]
    /\ tokPc' = "restored"
    /\ UNCHANGED <<tokVault, tokBlocks, tokProtected, notTok>>
\* part_005:299-302
RestoreScripts ==
    /\ tokPc = "protected" /\ tokVault = "script"
    /\ tokText' = [k \in DOMAIN tokProtected |-> RestoreScript(tokProtected[k], tokBlocks)]
    /\ tokPc' = "restored"
    /\ UNCHANGED <<tokVault, tokBlocks, tokProtected, notTok>>
\* serve.ts:275-279
RestoreContainers ==
    /\ tokPc = "protected" /\ tokVault = "template"
    /\ tokText' = [k \in DOMAIN tokProtected |-> RestoreContainer(tokProtected[k], tokBlocks)]
    /\ tokPc' = "restored"
    /\ UNCHANGED <<tokVault, tokBlocks, tokProtected, notTok>>

TokInit ==
    /\ tokVault \in TokVaults
    /\ tokText \in UNION {[1..n -> TokItems] : n \in 1..MaxTokText}
    /\ tokBlocks = <<>>
    /\ tokProtected = <<>>
    /\ tokPc = "start"

\* ---- properties of the restore steps
Unmatched(k) ==
    tokProtected[k].t = "token" /\ ~Captured(tokBlocks, tokProtected[k].n)

\* C23: in each of the three vaults a token whose index has no captured
\* span at restore time stays in the output as it is, and is never
\* replaced by empty text.
C23_UnmatchedTokensVisible ==
    tokPc = "restored" =>
        \A k \in DOMAIN tokProtected : Unmatched(k) => tokText[k] = tokProtected[k]

\* =====================================================================
\* Documents without metadata
\* =====================================================================
\* a line of the block: "key: value" or a line without a colon (key "")
KeyLine(key, value) == [key |-> key, value |-> value]
NoColonLine == [key |-> "", value |-> ""]
MetaLines == {KeyLine("title", "T"), KeyLine("title", "U"), KeyLine("author", "A"), NoColonLine}
\* meta[key] = value
Assign(meta, key, value) ==
    [k \in DOMAIN meta \cup {key} |-> IF k = key THEN value ELSE meta[k]]
\* lines 1090-1105: for (const line of frontmatter.split('\n')) ...
RECURSIVE ParseFrontmatter(_, _)
ParseFrontmatter(lines, meta) ==
    IF lines = <<>> THEN meta
    ELSE ParseFrontmatter(Tail(lines),
             IF Head(lines).key # "" THEN Assign(meta, Head(lines).key, Head(lines).value)
             ELSE meta)
\* extractMetadata: const meta = {}; filled only behind a terminated block
ExtractedMeta ==
    IF docStarts /\ docTerminated THEN ParseFrontmatter(docLines, <<>>) ELSE <<>>
\* the value of meta.title; a property that is not there reads undefined
Undefined == "undefined"
MetaTitle(meta) == IF "title" \in DOMAIN meta THEN meta["title"] ELSE Undefined
\* x + ' | Nergy': string concatenation, undefined converted to "undefined"
ConcatSuffix(x) == <<x, " | Nergy">>
\* a || b: b when a is falsy; of strings only the empty one is falsy
OrElse(a, b) == IF a = <<>> THEN b ELSE a
DefaultTitle == <<"Nergy's Blog">>
\* meta.title + ' | Nergy' || 'Nergy\'s Blog' : + binds before ||
TitleReplacement(meta) == OrElse(ConcatSuffix(MetaTitle(meta)), DefaultTitle)

\* processMarkdownFile, lines 1029-1073: the metadata is extracted and the
\* body rendered, whatever the metadata holds
ProcessDocument ==
    /\ docPc = "read"
    /\ docMeta' = ExtractedMeta
    /\ docPc' = "rendered"
    /\ UNCHANGED <<docStarts, docTerminated, docLines, docTitle, notDoc>>
\* build, lines 1557-1589: generateHTML replaces {{title}} (line 1144) and
\* the page is written
GeneratePage ==
    /\ docPc = "rendered"
    /\ docTitle' = TitleReplacement(docMeta)
    /\ docPc' = "written"
    /\ UNCHANGED <<docStarts, docTerminated, docLines, docMeta, notDoc>>

DocInit ==
    /\ docStarts \in BOOLEAN
    /\ docTerminated \in BOOLEAN
    /\ docLines \in UNION {[1..n -> MetaLines] : n \in 0..MaxMetaLines}
    /\ docMeta = <<>>
    /\ docTitle = <<>>
    /\ docPc = "read"

\* ---- properties of documents without metadata
NoParsableKey == \A k \in DOMAIN docLines : docLines[k] = NoColonLine
MetadataMissing == ~docStarts \/ ~docTerminated \/ NoParsableKey

\* C25: a document whose frontmatter is absent, unterminated or without a
\* parsable key has an empty metadata mapping, is rendered and written, and
\* its page title is the default site title; no page title is built from an
\* undefined value.
C25_MissingMetadataDefaults ==
    /\ docPc \in {"rendered", "written"} /\ MetadataMissing => docMeta = <<>>
    /\ docPc = "written" /\ MetadataMissing => docTitle = DefaultTitle
    /\ \A k \in DOMAIN docTitle : docTitle[k] # Undefined

\* =====================================================================
\* File cache
\* =====================================================================
CachePaths == {"a.md", "b.md"}
\* the contents a file can have; v0 is what it holds when the process starts
FileVersions == {"v0", "v1"}
\* getFileHash: SHA-256 of the content, taken as free of collisions
GetFileHash(c) == <<"sha256", c>>
\* the page processMarkdownFile renders from a content
Rendered(c) == <<"html", c>>
NoEntry == [hash |-> <<>>, content |-> <<>>]
NoCall == [path |-> "", hit |-> FALSE, hashEqual |-> FALSE, age |-> 0,
           returned |-> <<>>, entry |-> NoEntry]

\* needsReprocessing(filePath, content)
NeedsReprocessing(cache, path, c) ==
    IF cache[path] = NoEntry THEN TRUE ELSE cache[path].hash # GetFileHash(c)
\* updateCache(filePath, content, processedContent)
UpdateCache(cache, path, c, processed) ==
    [cache EXCEPT ![path] = [hash |-> GetFileHash(c), content |-> processed]]

\* processMarkdownFile(filePath)
ProcessMarkdownFile(path) ==
    /\ cachePc = "run"
    /\ LET c == fileContents[path] IN
       IF ~NeedsReprocessing(fileCache, path, c)
       THEN /\ lastCall' = [path |-> path, hit |-> TRUE,
                            hashEqual |-> fileCache[path].hash = GetFileHash(c),
                            age |-> cacheClock - storedAt[path],
                            returned |-> fileCache[path].content,
                            entry |-> fileCache[path]]
            /\ UNCHANGED <<fileCache, storedAt>>
       ELSE /\ fileCache' = UpdateCache(fileCache, path, c, Rendered(c))
            /\ storedAt' = [storedAt EXCEPT ![path] = cacheClock]
            /\ lastCall' = [path |-> path, hit |-> FALSE, hashEqual |-> FALSE, age |-> 0,
                            returned |-> Rendered(c),
                            entry |-> fileCache'[path]]
    /\ UNCHANGED <<fileContents, cacheClock, cachePc, notCache>>

\* the author saves another content under the path
FileEdited(path) ==
    /\ cachePc = "run"
    /\ \E c \in FileVersions \ {fileContents[path]} :
          fileContents' = [fileContents EXCEPT ![path] = c]
    /\ UNCHANGED <<fileCache, cacheClock, storedAt, lastCall, cachePc, notCache>>

\* a minute passes
MinutePasses ==
    /\ cachePc = "run"
    /\ cacheClock < MaxClock
    /\ cacheClock' = cacheClock + 1
    /\ UNCHANGED <<fileCache, fileContents, storedAt, lastCall, cachePc, notCache>>

CacheInit ==
    /\ fileCache = [p \in CachePaths |-> NoEntry]
    /\ fileContents = [p \in CachePaths |-> "v0"]
    /\ cacheClock = 0
    /\ storedAt = [p \in CachePaths |-> 0]
    /\ lastCall = NoCall
    /\ cachePc = "run"

\* ---- properties of the file cache
\* C26: a stored render is returned for a path only if the stored hash
\* equals the hash of the current content and the entry is not older than
\* the cache TTL; otherwise the file is rendered again and the entry of the
\* path is replaced by the new hash and render.
C26_CacheReuseCondition ==
    lastCall # NoCall =>
        /\ lastCall.hit => lastCall.hashEqual /\ lastCall.age <= CacheTTL
        /\ ~lastCall.hit =>
              /\ lastCall.entry.hash # <<>>
              /\ lastCall.returned = lastCall.entry.content

\* =====================================================================
\* Temporary Lua files
\* =====================================================================
\* source paths, as sequences of characters
SourcePaths == {<<"a", "-", "b">>, <<"a", "_", "b">>, <<"c">>}
TempDocs == 1..InFlightDocs
NoName == <<>>
\* mdPath.replace(/[^a-zA-Z0-9]/g, '_')
SafePath(mdPath) ==
    [k \in DOMAIN mdPath |-> IF mdPath[k] \in {"a", "b", "c"} THEN mdPath[k] ELSE "_"]
\* `temp_${Date.now()}_${safePath}.lua`
TemplateTempFile(now, mdPath) == <<"temp", now, SafePath(mdPath)>>
\* `temp_interp_${Date.now()}_${Math.random().toString(36).substr(2, 9)}.lua`;
\* the random part is taken as different at every call
InterpTempFile(now, draw) == <<"temp_interp", now, <<draw>>>>

\* each document runs executeLuaScript for its directive and then
\* processLuaTemplate; both write, run and remove a temporary file
TempSteps == <<"interp", "template">>
StepOf(pc) == IF pc \in {"i_write", "i_run", "i_remove"} THEN "interp" ELSE "template"
AtWrite(pc) == pc \in {"i_write", "t_write"}
AtRun(pc) == pc \in {"i_run", "t_run"}
AtRemove(pc) == pc \in {"i_remove", "t_remove"}
\* where a document stands once the function it is in has returned
Returned(pc) == IF StepOf(pc) = "interp" THEN "t_write" ELSE "done"
NamesOnDisk == {file.name : file \in tempFs}
\* Deno.writeTextFile(tempFile, ...): creates the file or overwrites it
WriteFile(fs, name, owner, step) ==
    {file \in fs : file.name # name} \cup {[name |-> name, owner |-> owner, step |-> step]}
\* Deno.remove(tempFile)
RemoveFile(fs, name) == {file \in fs : file.name # name}
OwnerOf(fs, name) ==
    IF \E file \in fs : file.name = name
    THEN (CHOOSE file \in fs : file.name = name).owner ELSE 0

\* lines 837-838 and 996-998: the name is built and the file written
WriteTempFile(f) ==
    /\ tempRunPc = "run" /\ AtWrite(tempPc[f])
    /\ LET name == IF tempPc[f] = "i_write"
                   THEN InterpTempFile(dateNow, randomDraws)
                   ELSE TemplateTempFile(dateNow, tempPaths[f])
       IN  /\ tempName' = [tempName EXCEPT ![f] = name]
           /\ tempFs' = WriteFile(tempFs, name, f, StepOf(tempPc[f]))
    /\ randomDraws' = IF tempPc[f] = "i_write" THEN randomDraws + 1 ELSE randomDraws
    /\ tempPc' = [tempPc EXCEPT ![f] = IF @ = "i_write" THEN "i_run" ELSE "t_run"]
    /\ UNCHANGED <<tempPaths, dateNow, executed, tempRunPc, notTemp>>

\* lines 841-850 and 1001-1010: process.output() returns, with any exit
\* status; lua has read the file of that name, if there is one
LuaRuns(f) ==
    /\ tempRunPc = "run" /\ AtRun(tempPc[f])
    /\ executed' = [executed EXCEPT ![f] = @ \cup {OwnerOf(tempFs, tempName[f])}]
    /\ tempPc' = [tempPc EXCEPT ![f] = IF @ = "i_run" THEN "i_remove" ELSE "t_remove"]
    /\ UNCHANGED <<tempPaths, tempName, tempFs, dateNow, randomDraws, tempRunPc, notTemp>>

\* process.output() throws because lua cannot be started: the catch of
\* lines 861-864 and 1021-1024 returns at once
LuaCannotStart(f) ==
    /\ tempRunPc = "run" /\ AtRun(tempPc[f])
    /\ tempName' = [tempName EXCEPT ![f] = NoName]
    /\ tempPc' = [tempPc EXCEPT ![f] = Returned(@)]
    /\ UNCHANGED <<tempPaths, tempFs, dateNow, randomDraws, executed, tempRunPc, notTemp>>

\* lines 853 and 1013: Deno.remove(tempFile); when the file is not there any
\* more it throws and the catch returns
RemoveTempFile(f) ==
    /\ tempRunPc = "run" /\ AtRemove(tempPc[f])
    /\ tempFs' = RemoveFile(tempFs, tempName[f])
    /\ tempName' = [tempName EXCEPT ![f] = NoName]
    /\ tempPc' = [tempPc EXCEPT ![f] = Returned(@)]
    /\ UNCHANGED <<tempPaths, dateNow, randomDraws, executed, tempRunPc, notTemp>>

\* a millisecond passes
MillisecondPasses ==
    /\ tempRunPc = "run"
    /\ dateNow < MaxNow
    /\ dateNow' = dateNow + 1
    /\ UNCHANGED <<tempPaths, tempPc, tempName, tempFs, randomDraws, executed, tempRunPc, notTemp>>

\* build: markdownFiles.map(...) has started every document; the paths of a
\* directory scan are distinct
TempInit ==
    /\ tempPaths \in {p \in [TempDocs -> SourcePaths] :
                         \A f, g \in TempDocs : f # g => p[f] # p[g]}
    /\ tempPc = [f \in TempDocs |-> "i_write"]
    /\ tempName = [f \in TempDocs |-> NoName]
    /\ tempFs = {}
    /\ dateNow = 0
    /\ randomDraws = 0
    /\ executed = [f \in TempDocs |-> {}]
    /\ tempRunPc = "run"

\* ---- properties of the temporary files
\* C27: no two documents in flight use the same temporary file name, so no
\* document's lua run reads a script written for another document.
C27_NoSharedTempFile ==
    /\ \A f, g \in TempDocs :
          (f # g /\ tempName[f] # NoName /\ tempName[g] # NoName)
              => tempName[f] # tempName[g]
    /\ \A f \in TempDocs : executed[f] \subseteq {f}

\* C28: every temporary file on disk belongs to a call that has not
\* returned yet: executeLuaScript and processLuaTemplate leave no file of
\* theirs behind, whether lua succeeds, fails or cannot be started.
C28_TempFilesCleanedUp ==
    \A file \in tempFs :
        /\ tempName[file.owner] = file.name
        /\ StepOf(tempPc[file.owner]) = file.step
        /\ AtRun(tempPc[file.owner]) \/ AtRemove(tempPc[file.owner])

\* =====================================================================
\* Links and images
\* =====================================================================
\* A url is a sequence of characters; "https://", "/assets/" and "./" stand
\* for these prefixes as one character each.
LinkUrls ==
    {<<"https://", "u">>, <<"https://", "u", "_", "v">>, <<"./", "u">>, <<"/assets/", "u", "*", "v", "*">>}
Piece(kind, url, txt) == [kind |-> kind, url |-> url, txt |-> txt]
LinkPieces ==
    {Piece("text", <<>>, <<"a">>), Piece("text", <<>>, <<" ">>)}
        \cup {Piece(k, url, <<"t">>) : k \in {"link", "image"}, url \in LinkUrls}
Html(str) == Piece("html", <<>>, str)

\* lines 50-53: a src that is neither absolute nor under /assets/ is put
\* under /assets/, without its leading "./"
OrigSrc(src) ==
    IF Head(src) \in {"https://", "/assets/"} THEN src
    ELSE <<"/assets/">> \o (IF Head(src) = "./" THEN Tail(src) ELSE src)
\* lines 56-59: query and hash removed, the extension replaced by .webp; the
\* urls used here have neither
WebpSrc(origSrc) == origSrc
\* lines 73-82
ImageHtml(src, alt, webp) ==
    IF webp
    THEN <<"<picture><source srcset=">> \o WebpSrc(OrigSrc(src)) \o <<" type>", "<img src=">>
             \o OrigSrc(src) \o <<" alt=">> \o alt \o <<">", "</picture>">>
    ELSE <<"<img src=">> \o OrigSrc(src) \o <<" alt=">> \o alt \o <<">">>
\* `<a href="${url}" target="_blank" rel="noopener noreferrer">${text}</a>`
LinkHtml(url, text) ==
    <<"<a href=">> \o url \o <<" target=", "_", "blank rel>">> \o text \o <<"</a>">>

\* lines 61-71: Deno.statSync(webpPath) with '/assets/' replaced by
\* './dist/assets/'; a path that is not under /assets/ names no file
WebpFound(src) == webpExists /\ Head(OrigSrc(src)) = "/assets/"
\* lines 48-83
ImagePass ==
    /\ linkPc = "images"
    /\ linkPieces' = [k \in DOMAIN linkPieces |->
                         IF linkPieces[k].kind = "image"
                         THEN Html(ImageHtml(linkPieces[k].url, linkPieces[k].txt,
                                             WebpFound(linkPieces[k].url)))
                         ELSE linkPieces[k]]
    /\ linkPc' = "links"
    /\ UNCHANGED <<linkSrc, linkLine, webpExists, notLink>>
\* lines 86-89
LinkPass ==
    /\ linkPc = "links"
    /\ linkPieces' = [k \in DOMAIN linkPieces |->
                         IF linkPieces[k].kind = "link"
                         THEN Html(LinkHtml(linkPieces[k].url, linkPieces[k].txt))
                         ELSE linkPieces[k]]
    /\ linkPc' = "inline"
    /\ UNCHANGED <<linkSrc, linkLine, webpExists, notLink>>
RECURSIVE JoinPieces(_)
JoinPieces(pieces) ==
    IF pieces = <<>> THEN <<>> ELSE Head(pieces).txt \o JoinPieces(Tail(pieces))
\* lines 319-327: bold, italic, strikethrough and inline code over the whole
\* string, the markup of the links and images included
InlinePassesOverLinks ==
    /\ linkPc = "inline"
    /\ linkLine' = InlinePasses(JoinPieces(linkPieces))
    /\ linkPc' = "done"
    /\ UNCHANGED <<linkSrc, linkPieces, webpExists, notLink>>

LinkInit ==
    /\ linkSrc \in UNION {[1..n -> LinkPieces] : n \in 1..MaxLinkPieces}
    /\ linkPieces = linkSrc
    /\ linkLine = <<>>
    /\ webpExists \in BOOLEAN
    /\ linkPc = "images"

\* ---- properties of the links and images
\* the values of the href and src attributes of a string, in order: what
\* stands between the opening of the attribute and the text that follows it
AttrEnd(str, from) ==
    LET ends == {k \in from..Len(str) : str[k] \in {" target=", " alt="}}
    IN  IF ends = {} THEN Len(str) + 1 ELSE CHOOSE k \in ends : \A e \in ends : k <= e
RECURSIVE AttrValues(_, _)
AttrValues(str, p) ==
    IF p > Len(str) THEN <<>>
    ELSE IF str[p] \in {"<a href=", "<img src="}
         THEN LET e == AttrEnd(str, p + 1)
              IN  <<SubSeq(str, p + 1, e - 1)>> \o AttrValues(str, e)
         ELSE AttrValues(str, p + 1)
\* the url of every link and the src, rewritten where relative, of every
\* image of the line as written
RECURSIVE WrittenTargets(_)
WrittenTargets(src) ==
    IF src = <<>> THEN <<>>
    ELSE (CASE Head(src).kind = "link" -> <<Head(src).url>>
            [] Head(src).kind = "image" -> <<OrigSrc(Head(src).url)>>
            [] OTHER -> <<>>) \o WrittenTargets(Tail(src))

\* C29: in the final output the href of every link and the src of every
\* image is exactly the url written in the source, or its /assets/ rewrite
\* for a relative image path; the inline passes change nothing inside them.
C29_LinkTargetsSurvive ==
    linkPc = "done" => AttrValues(linkLine, 1) = WrittenTargets(linkSrc)

\* =====================================================================
\* Development server
\* =====================================================================
TimePath == "/lua-scripts/time"
ExecutePath == "/lua-scripts/lua-execute"
ScriptFilePath == "/lua-scripts/x.lua"
SrvPaths == {TimePath, ExecutePath, ScriptFilePath, "/about"}
\* the requests sent: any path by GET, the two endpoints also by POST
SrvRequests ==
    {[method |-> "GET", path |-> p] : p \in SrvPaths}
        \cup {[method |-> "POST", path |-> p] : p \in {TimePath, ExecutePath}}
SrvModules == {"render-time", "other"}
\* const allowedModules = ["render-time"]
AllowedModules == {"render-time"}
DistFiles == {"/about.html", ScriptFilePath, "/index.html"}
\* path.startsWith('/lua-scripts/')
IsLuaScriptsPath(path) == path \in {TimePath, ExecutePath, ScriptFilePath}
\* extname(path)
HasExtname(path) == path = ScriptFilePath
\* the endpoints of the API: /lua-scripts/time and POST /lua-scripts/lua-execute
ApiProducers == {"time", "lua-execute"}
NoCached == [producer |-> "", method |-> "", timestamp |-> 0]
NoResponse == [method |-> "", path |-> "", module |-> "", fromCache |-> FALSE,
               producer |-> "", storedFor |-> "", age |-> 0]

\* getCachedResponse(path): the map after the call (an entry older than
\* CACHE_TTL is deleted) and the entry returned, NoCached for null
Expired(entry, now) == now - entry.timestamp > CACHE_TTL
GetCachedResponse(cache, path, now) ==
    IF cache[path] # NoCached /\ Expired(cache[path], now)
    THEN [cache |-> [cache EXCEPT ![path] = NoCached], cached |-> NoCached]
    ELSE [cache |-> cache, cached |-> cache[path]]
\* setCachedResponse(path, response)
SetCachedResponse(cache, path, producer, method, now) ==
    [cache EXCEPT ![path] = [producer |-> producer, method |-> method, timestamp |-> now]]

\* the handler behind the cache check, lines 137-367: who produces the
\* response, and whether it is stored
Produce(req, module, luaOk) ==
    IF req.path = TimePath
    THEN [producer |-> IF luaOk THEN "time" ELSE "time-error", store |-> luaOk]
    ELSE IF req.path = ExecutePath /\ req.method = "POST"
    THEN [producer |-> IF module \in AllowedModules THEN "lua-execute" ELSE "forbidden",
          store |-> FALSE]
    ELSE IF ~HasExtname(req.path) /\ (req.path = "/about" /\ "/about.html" \in distFiles)
    THEN [producer |-> "clean-url", store |-> TRUE]
    ELSE IF req.path \in distFiles
    THEN [producer |-> "static", store |-> TRUE]
    ELSE IF "/index.html" \in distFiles
    THEN [producer |-> "index-fallback", store |-> TRUE]
    ELSE [producer |-> "404", store |-> FALSE]

\* the serve handler, lines 123-368
HandleRequest(req, module, luaOk) ==
    /\ srvPc = "serving"
    /\ LET looked == IF IsLuaScriptsPath(req.path)
                     THEN GetCachedResponse(responseCache, req.path, srvNow)
                     ELSE [cache |-> responseCache, cached |-> NoCached]
       IN  IF looked.cached # NoCached
           THEN /\ responseCache' = looked.cache
                /\ lastResponse' = [method |-> req.method, path |-> req.path, module |-> module,
                                    fromCache |-> TRUE,
                                    producer |-> looked.cached.producer,
                                    storedFor |-> looked.cached.method,
                                    age |-> srvNow - looked.cached.timestamp]
           ELSE LET made == Produce(req, module, luaOk) IN
                /\ responseCache' = IF made.store
                                    THEN SetCachedResponse(looked.cache, req.path,
                                                           made.producer, req.method, srvNow)
                                    ELSE looked.cache
                /\ lastResponse' = [method |-> req.method, path |-> req.path, module |-> module,
                                    fromCache |-> FALSE, producer |-> made.producer,
                                    storedFor |-> req.method, age |-> 0]
    /\ UNCHANGED <<distFiles, srvNow, srvPc, notSrv>>

\* lines 57-64: setInterval(..., CACHE_TTL) deletes the expired entries
CleanUpInterval ==
    /\ srvPc = "serving"
    /\ srvNow >= CACHE_TTL
    /\ responseCache' = [p \in DOMAIN responseCache |->
                            IF responseCache[p] # NoCached /\ Expired(responseCache[p], srvNow)
                            THEN NoCached ELSE responseCache[p]]
    /\ UNCHANGED <<distFiles, srvNow, lastResponse, srvPc, notSrv>>

\* three minutes pass
SrvTimePasses ==
    /\ srvPc = "serving"
    /\ srvNow + SrvStep <= MaxSrvNow
    /\ srvNow' = srvNow + SrvStep
    /\ UNCHANGED <<responseCache, distFiles, lastResponse, srvPc, notSrv>>

SrvInit ==
    /\ responseCache = [p \in SrvPaths |-> NoCached]
    /\ distFiles \in SUBSET DistFiles
    /\ srvNow = 0
    /\ lastResponse = NoResponse
    /\ srvPc = "serving"

\* ---- properties of the development server
\* C30: a POST to /lua-scripts/lua-execute that names an allowed module is
\* answered by executing the module, and a response taken from the cache
\* was produced by an API endpoint, for the same kind of request, no longer
\* ago than the TTL.
C30_CacheAnswersOwnKind ==
    /\ (lastResponse.method = "POST" /\ lastResponse.path = ExecutePath
            /\ lastResponse.module \in AllowedModules)
          => lastResponse.producer = "lua-execute"
    /\ lastResponse.fromCache =>
          /\ lastResponse.producer \in ApiProducers
          /\ lastResponse.storedFor = lastResponse.method
          /\ lastResponse.age <= CACHE_TTL

\* =====================================================================
\* Specifications
\* =====================================================================
InitList == ListInit /\ VaultIdle /\ TableIdle /\ InterpIdle /\ FootIdle /\ PageIdle /\ BuildIdle /\ TocIdle /\ EmphIdle /\ FmIdle /\ PipeIdle /\ DefIdle /\ RowIdle /\ AbbrIdle /\ TokIdle /\ DocIdle /\ CacheIdle /\ TempIdle /\ LinkIdle /\ SrvIdle
NextList ==
    \/ \E spaces \in 0..MaxSpaces, marker \in Markers : ListItem(spaces, marker)
    \/ NonListLine
    \/ ListsEnd
SpecList == InitList /\ [][NextList]_vars

InitVault == VaultInit /\ ListIdle /\ TableIdle /\ InterpIdle /\ FootIdle /\ PageIdle /\ BuildIdle /\ TocIdle /\ EmphIdle /\ FmIdle /\ PipeIdle /\ DefIdle /\ RowIdle /\ AbbrIdle /\ TokIdle /\ DocIdle /\ CacheIdle /\ TempIdle /\ LinkIdle /\ SrvIdle
NextVault ==
    \/ ProtectCodeBlocks
    \/ RestoreCodeBlocks
SpecVault == InitVault /\ [][NextVault]_vars

InitTable == TableInit /\ ListIdle /\ VaultIdle /\ InterpIdle /\ FootIdle /\ PageIdle /\ BuildIdle /\ TocIdle /\ EmphIdle /\ FmIdle /\ PipeIdle /\ DefIdle /\ RowIdle /\ AbbrIdle /\ TokIdle /\ DocIdle /\ CacheIdle /\ TempIdle /\ LinkIdle /\ SrvIdle
NextTable ==
    \/ ExtractBody
    \/ ParseTables
SpecTable == InitTable /\ [][NextTable]_vars

InitInterp == InterpInit /\ ListIdle /\ VaultIdle /\ TableIdle /\ FootIdle /\ PageIdle /\ BuildIdle /\ TocIdle /\ EmphIdle /\ FmIdle /\ PipeIdle /\ DefIdle /\ RowIdle /\ AbbrIdle /\ TokIdle /\ DocIdle /\ CacheIdle /\ TempIdle /\ LinkIdle /\ SrvIdle
NextInterp ==
    \/ ParseInterpolations
    \/ ScriptNotFound
    \/ \E stdout \in ScriptStdouts : ScriptRuns(stdout)
    \/ ScriptExitsNonZero
    \/ ScriptLaunchFails
    \/ RenderMarkdown
    \/ WritePage
SpecInterp == InitInterp /\ [][NextInterp]_vars

InitFoot == FootInit /\ ListIdle /\ VaultIdle /\ TableIdle /\ InterpIdle /\ PageIdle /\ BuildIdle /\ TocIdle /\ EmphIdle /\ FmIdle /\ PipeIdle /\ DefIdle /\ RowIdle /\ AbbrIdle /\ TokIdle /\ DocIdle /\ CacheIdle /\ TempIdle /\ LinkIdle /\ SrvIdle
NextFoot ==
    \/ CollectFootnoteDefs
    \/ NumberFootnoteRefs
SpecFoot == InitFoot /\ [][NextFoot]_vars

InitPage == PageInit /\ ListIdle /\ VaultIdle /\ TableIdle /\ InterpIdle /\ FootIdle /\ BuildIdle /\ TocIdle /\ EmphIdle /\ FmIdle /\ PipeIdle /\ DefIdle /\ RowIdle /\ AbbrIdle /\ TokIdle /\ DocIdle /\ CacheIdle /\ TempIdle /\ LinkIdle /\ SrvIdle
NextPage ==
    \/ GenerateHTML
SpecPage == InitPage /\ [][NextPage]_vars

InitBuild == BuildInit /\ ListIdle /\ VaultIdle /\ TableIdle /\ InterpIdle /\ FootIdle /\ PageIdle /\ TocIdle /\ EmphIdle /\ FmIdle /\ PipeIdle /\ DefIdle /\ RowIdle /\ AbbrIdle /\ TokIdle /\ DocIdle /\ CacheIdle /\ TempIdle /\ LinkIdle /\ SrvIdle
NextBuild ==
    \/ StartBatch
    \/ \E f \in DOMAIN filePc : StageCompletes(f)
    \/ \E f \in DOMAIN filePc : WriteTextFile(f)
    \/ \E f \in DOMAIN filePc : StageThrows(f)
    \/ BuildSummary
SpecBuild == InitBuild /\ [][NextBuild]_vars

InitToc == TocInit /\ ListIdle /\ VaultIdle /\ TableIdle /\ InterpIdle /\ FootIdle /\ PageIdle /\ BuildIdle /\ EmphIdle /\ FmIdle /\ PipeIdle /\ DefIdle /\ RowIdle /\ AbbrIdle /\ TokIdle /\ DocIdle /\ CacheIdle /\ TempIdle /\ LinkIdle /\ SrvIdle
NextToc ==
    \/ TocLeftAlone
    \/ TocExpanded
    \/ TocReadFails
SpecToc == InitToc /\ [][NextToc]_vars

InitPool == PoolInit /\ ListIdle /\ VaultIdle /\ TableIdle /\ InterpIdle /\ FootIdle /\ PageIdle /\ TocIdle /\ EmphIdle /\ FmIdle /\ PipeIdle /\ DefIdle /\ RowIdle /\ AbbrIdle /\ TokIdle /\ DocIdle /\ CacheIdle /\ TempIdle /\ LinkIdle /\ SrvIdle
SpecPool == InitPool /\ [][NextBuild]_vars

InitEmph == EmphInit /\ ListIdle /\ VaultIdle /\ TableIdle /\ InterpIdle /\ FootIdle /\ PageIdle /\ BuildIdle /\ TocIdle /\ FmIdle /\ PipeIdle /\ DefIdle /\ RowIdle /\ AbbrIdle /\ TokIdle /\ DocIdle /\ CacheIdle /\ TempIdle /\ LinkIdle /\ SrvIdle
NextEmph ==
    \/ ApplyInlinePasses
SpecEmph == InitEmph /\ [][NextEmph]_vars

InitFm == FmInit /\ ListIdle /\ VaultIdle /\ TableIdle /\ InterpIdle /\ FootIdle /\ PageIdle /\ BuildIdle /\ TocIdle /\ EmphIdle /\ PipeIdle /\ DefIdle /\ RowIdle /\ AbbrIdle /\ TokIdle /\ DocIdle /\ CacheIdle /\ TempIdle /\ LinkIdle /\ SrvIdle
NextFm ==
    \/ ExtractMetadata
SpecFm == InitFm /\ [][NextFm]_vars

InitPipe == PipeInit /\ ListIdle /\ VaultIdle /\ TableIdle /\ InterpIdle /\ FootIdle /\ PageIdle /\ BuildIdle /\ TocIdle /\ EmphIdle /\ FmIdle /\ DefIdle /\ RowIdle /\ AbbrIdle /\ TokIdle /\ DocIdle /\ CacheIdle /\ TempIdle /\ LinkIdle /\ SrvIdle
NextPipe ==
    \/ ProtectScriptBlocks
    \/ ProtectFencedBlocks
    \/ TransformPass
    \/ RestoreScriptBlocks
    \/ RestoreFencedBlocks
SpecPipe == InitPipe /\ [][NextPipe]_vars

InitDef == DefInit /\ ListIdle /\ VaultIdle /\ TableIdle /\ InterpIdle /\ FootIdle /\ PageIdle /\ BuildIdle /\ TocIdle /\ EmphIdle /\ FmIdle /\ PipeIdle /\ RowIdle /\ AbbrIdle /\ TokIdle /\ DocIdle /\ CacheIdle /\ TempIdle /\ LinkIdle /\ SrvIdle
NextDef ==
    \/ DefinitionLine
    \/ TermLine
    \/ OtherLine
    \/ DefinitionListsEnd
SpecDef == InitDef /\ [][NextDef]_vars

InitRow == RowInit /\ ListIdle /\ VaultIdle /\ TableIdle /\ InterpIdle /\ FootIdle /\ PageIdle /\ BuildIdle /\ TocIdle /\ EmphIdle /\ FmIdle /\ PipeIdle /\ DefIdle /\ AbbrIdle /\ TokIdle /\ DocIdle /\ CacheIdle /\ TempIdle /\ LinkIdle /\ SrvIdle
NextRow ==
    \/ TableRow
    \/ NotATableRow
SpecRow == InitRow /\ [][NextRow]_vars

InitAbbr == AbbrInit /\ ListIdle /\ VaultIdle /\ TableIdle /\ InterpIdle /\ FootIdle /\ PageIdle /\ BuildIdle /\ TocIdle /\ EmphIdle /\ FmIdle /\ PipeIdle /\ DefIdle /\ RowIdle /\ TokIdle /\ DocIdle /\ CacheIdle /\ TempIdle /\ LinkIdle /\ SrvIdle
NextAbbr ==
    \/ CollectAbbrevDefs
    \/ ReplaceAbbrevRefs
SpecAbbr == InitAbbr /\ [][NextAbbr]_vars

InitTok == TokInit /\ ListIdle /\ VaultIdle /\ TableIdle /\ InterpIdle /\ FootIdle /\ PageIdle /\ BuildIdle /\ TocIdle /\ EmphIdle /\ FmIdle /\ PipeIdle /\ DefIdle /\ RowIdle /\ AbbrIdle /\ DocIdle /\ CacheIdle /\ TempIdle /\ LinkIdle /\ SrvIdle
NextTok ==
    \/ ProtectRawCodeBlocks
    \/ ProtectScripts
    \/ ProtectContainers
    \/ RestoreRawCodeBlocks
    \/ RestoreScripts
    \/ RestoreContainers
SpecTok == InitTok /\ [][NextTok]_vars

InitDoc == DocInit /\ ListIdle /\ VaultIdle /\ TableIdle /\ InterpIdle /\ FootIdle /\ PageIdle /\ BuildIdle /\ TocIdle /\ EmphIdle /\ FmIdle /\ PipeIdle /\ DefIdle /\ RowIdle /\ AbbrIdle /\ TokIdle /\ CacheIdle /\ TempIdle /\ LinkIdle /\ SrvIdle
NextDoc ==
    \/ ProcessDocument
    \/ GeneratePage
SpecDoc == InitDoc /\ [][NextDoc]_vars

InitCache == CacheInit /\ ListIdle /\ VaultIdle /\ TableIdle /\ InterpIdle /\ FootIdle /\ PageIdle /\ BuildIdle /\ TocIdle /\ EmphIdle /\ FmIdle /\ PipeIdle /\ DefIdle /\ RowIdle /\ AbbrIdle /\ TokIdle /\ DocIdle /\ TempIdle /\ LinkIdle /\ SrvIdle
NextCache ==
    \/ \E p \in CachePaths : ProcessMarkdownFile(p)
    \/ \E p \in CachePaths : FileEdited(p)
    \/ MinutePasses
SpecCache == InitCache /\ [][NextCache]_vars

InitTemp == TempInit /\ ListIdle /\ VaultIdle /\ TableIdle /\ InterpIdle /\ FootIdle /\ PageIdle /\ BuildIdle /\ TocIdle /\ EmphIdle /\ FmIdle /\ PipeIdle /\ DefIdle /\ RowIdle /\ AbbrIdle /\ TokIdle /\ DocIdle /\ CacheIdle /\ LinkIdle /\ SrvIdle
NextTemp ==
    \/ \E f \in TempDocs : WriteTempFile(f)
    \/ \E f \in TempDocs : LuaRuns(f)
    \/ \E f \in TempDocs : LuaCannotStart(f)
    \/ \E f \in TempDocs : RemoveTempFile(f)
    \/ MillisecondPasses
SpecTemp == InitTemp /\ [][NextTemp]_vars

InitLink == LinkInit /\ ListIdle /\ VaultIdle /\ TableIdle /\ InterpIdle /\ FootIdle /\ PageIdle /\ BuildIdle /\ TocIdle /\ EmphIdle /\ FmIdle /\ PipeIdle /\ DefIdle /\ RowIdle /\ AbbrIdle /\ TokIdle /\ DocIdle /\ CacheIdle /\ TempIdle /\ SrvIdle
NextLink ==
    \/ ImagePass
    \/ LinkPass
    \/ InlinePassesOverLinks
SpecLink == InitLink /\ [][NextLink]_vars

InitSrv == SrvInit /\ ListIdle /\ VaultIdle /\ TableIdle /\ InterpIdle /\ FootIdle /\ PageIdle /\ BuildIdle /\ TocIdle /\ EmphIdle /\ FmIdle /\ PipeIdle /\ DefIdle /\ RowIdle /\ AbbrIdle /\ TokIdle /\ DocIdle /\ CacheIdle /\ TempIdle /\ LinkIdle
NextSrv ==
    \/ \E req \in SrvRequests, module \in SrvModules, luaOk \in BOOLEAN : HandleRequest(req, module, luaOk)
    \/ CleanUpInterval
    \/ SrvTimePasses
SpecSrv == InitSrv /\ [][NextSrv]_vars

Init == InitList
Next == NextList
Spec == Init /\ [][Next]_vars
====
